---------------------------- MODULE Spec2Model ----------------------------
(***************************************************************************)
(* A model of the container (Kubernetes cluster) part of the SDK: the API  *)
(* adapter's cluster construction and validation, its operation polling    *)
(* loop, the `clusters create` command and the kubeconfig document.        *)
(*                                                                         *)
(* Python values are modelled as follows.  An optional flag is one of the  *)
(* strings "None", "True", "False" (booleans), "None", "set" (strings and  *)
(* lists) or "None", "empty", "valid", "badkey" (the create_subnetwork     *)
(* dictionary).  Truthy(v) is Python's truth value of the flag.            *)
(***************************************************************************)
EXTENDS Integers, Sequences, FiniteSets, TLC

VARIABLES
    \* ---- adapter call (CreateCluster / UpdateCluster) ----
    call,          \* which adapter method is being called
    api_version,   \* "v1", "v1beta1" or "v1alpha1": the adapter class
    options,       \* the CreateClusterOptions / UpdateClusterOptions object
    flags_set,     \* how many options differ from the constructor's default
    adapter_pc,    \* "options" while the options are built, then "done"
    sent,          \* the requests sent to the remote API, in order
    outcome,       \* what the adapter call returned or raised
    \* ---- WaitForOperation ----
    wait_pc,       \* where the call is: "idle", "start", "check", "fetch",
                   \* "sleep", "after_loop", "returned" or "raised"
    timeout_s,     \* its timeout_s argument
    poll_period_s, \* its poll_period_s argument
    platform,      \* "unix" or "windows": what time.clock() measures
    wall,          \* wall-clock seconds since the process started
    cpu,           \* processor seconds the process has used
    start_time,    \* the local start_time
    wall_start,    \* the wall-clock time at which start_time was read
    operation,     \* the local `operation`: "unbound" or the last one fetched
    history,       \* the outcomes of the GetOperation calls, in order
    sleeps,        \* how many times time.sleep(poll_period_s) was called
    wait_result,   \* what WaitForOperation returned or raised
    \* ---- `clusters create` (Create.Run) ----
    run_pc,        \* where Run is: "idle", "create", "async_get", "wait",
                   \* "get_cluster", "persist", "returned" or "raised"
    async,         \* args.async
    run_log,       \* the calls of Run that completed without raising
    kubeconfig_written, \* whether ClusterConfig.Persist wrote the kubeconfig
    run_result,    \* what Run returned or raised
    \* ---- a Kubeconfig object ----
    kc_clusters,   \* self.clusters: name -> entry
    kc_users,      \* self.users: name -> entry
    kc_contexts,   \* self.contexts: name -> entry
    kc_current,    \* self._data['current-context'] ("<absent>": no such key)
    kc_calls,      \* how many methods were called on the object
    kc_last,       \* the last method called, with its argument
    kc_before,     \* the object as it was before that call
    \* ---- the kubeconfig file, one process saving and one loading ----
    file_content,  \* the lines of the file on disk
    save_pc,       \* the saving process: "idle", "open", "write", "done"
                   \* or "raised"
    save_pos,      \* how many lines its file object has written
    load_mode,     \* the loading process calls "LoadFromFile" or
                   \* "LoadOrCreate"
    load_pc,       \* the loading process: "idle", "read", "validate",
                   \* "create_open", "create_write", "returned" or "raised"
    load_seen,     \* the file content it read
    load_pos,      \* how many lines its own SaveToFile has written
    load_result,   \* the document of the Kubeconfig it returned
    \* ---- the GCE cache: threads of CLI processes calling GetOnGCE ----
    gce_threads,   \* the threads that call GetOnGCE
    gce_now,       \* time.time(), in seconds
    gce_ticks,     \* how many times the clock has advanced
    gce_disk,      \* the cache file: its content ("<absent>": no file) and
                   \* modification time
    gce_mem,       \* per process: connected and expiration_time
    gce_lock,      \* per process: the thread holding file_lock, or "free"
    gce_pc,        \* per thread: where its GetOnGCE call is
    gce_local,     \* per thread: check_age, on_gce and what the call did
    gce_log,       \* the calls that returned, in order
    \* NodeIdentityOptionsToNodeConfig
    scope_pc,      \* "idle", "options" while the options are built, "done"
    scope_table,   \* constants.SCOPES: alias -> the URIs it stands for
    scope_property, \* the property container/new_scopes_behavior
    scope_options, \* service_account, new_scopes_behavior,
                   \* enable_cloud_endpoints and scopes of the options
    scope_result,  \* the node_config after the call, or the error raised
    \* kubeconfig.User
    user_pc,       \* "idle", "args" while the arguments are chosen, "done"
    user_args,     \* the keyword arguments of the call
    user_result,   \* the entry returned, or the error raised
    \* UpdateLabels / RemoveLabels
    lbl_pc,        \* "idle", "fetch", "write", "done"
    lbl_server,    \* the cluster on the server: how a Get answers, its
                   \* resourceLabels and its labelFingerprint
    lbl_changes,   \* how often another client changed the labels meanwhile
    lbl_args,      \* the method called and its labels argument
    lbl_fetched,   \* what GetCluster returned or raised
    lbl_sent,      \* the SetLabels requests sent, in order
    lbl_result,    \* what the method returned or raised
    \* A function of the command libraries called once
    op_pc,         \* "idle", "call" before the call, "done" after it
    op_input,      \* its arguments and what it reads
    op_result      \* what it returned or raised

adapterVars == <<call, api_version, options, flags_set, adapter_pc, sent, outcome>>

waitVars == <<wait_pc, timeout_s, poll_period_s, platform, wall, cpu,
              start_time, wall_start, operation, history, sleeps, wait_result>>

runVars == <<run_pc, async, run_log, kubeconfig_written, run_result>>

kubeVars == <<kc_clusters, kc_users, kc_contexts, kc_current, kc_calls,
              kc_last, kc_before>>

fileVars == <<file_content, save_pc, save_pos, load_mode, load_pc, load_seen,
              load_pos, load_result>>

gceVars == <<gce_threads, gce_now, gce_ticks, gce_disk, gce_mem, gce_lock,
             gce_pc, gce_local, gce_log>>

\* The variables of the parts that are modelled on their own.
scopeVars == <<scope_pc, scope_table, scope_property, scope_options,
               scope_result>>

userVars == <<user_pc, user_args, user_result>>

pureVars == <<scopeVars, userVars>>

labelVars == <<lbl_pc, lbl_server, lbl_changes, lbl_args, lbl_fetched,
               lbl_sent, lbl_result>>

opVars == <<op_pc, op_input, op_result>>

moreVars == <<labelVars, opVars>>

extVars == <<fileVars, gceVars, pureVars, moreVars>>

vars == <<adapterVars, waitVars, runVars, kubeVars, extVars>>

notAdapterVars == <<waitVars, runVars, kubeVars, extVars>>

notWaitVars == <<adapterVars, runVars, kubeVars, extVars>>

notRunVars == <<call, flags_set, adapter_pc, outcome, kubeVars, extVars>>

notKubeVars == <<adapterVars, waitVars, runVars, extVars>>

notFileVars == <<adapterVars, waitVars, runVars, kubeVars, gceVars, pureVars,
                 moreVars>>

notGceVars == <<adapterVars, waitVars, runVars, kubeVars, fileVars, pureVars,
                moreVars>>

notScopeVars == <<adapterVars, waitVars, runVars, kubeVars, fileVars, gceVars,
                  userVars, moreVars>>

notUserVars == <<adapterVars, waitVars, runVars, kubeVars, fileVars, gceVars,
                 scopeVars, moreVars>>

notLabelVars == <<adapterVars, waitVars, runVars, kubeVars, fileVars, gceVars,
                  pureVars, opVars>>

notOpVars == <<adapterVars, waitVars, runVars, kubeVars, fileVars, gceVars,
               pureVars, labelVars>>

-----------------------------------------------------------------------------
(* Bounds of the model. *)

\* Node counts 1..MaxNumNodes are tried (and the documented 2500).
MaxNumNodes == 12
\* Per-pool limits 1..MaxPerPool are tried (and None and 1000).
MaxPerPool == 6
\* At most this many options are given a non-default value in one call.
MaxSet == 3
\* --scopes holds at most this many names.
MaxScopes == 2
\* kubeconfig.User is called with at most this many keyword arguments.
MaxArgs == 3
\* RemoveLabels is given at most this many keys.
MaxKeys == 2
\* Another client changes the cluster's labels at most this often.
MaxLabelChanges == 1
\* WaitForOperation is followed for at most this many GetOperation calls.
MaxPolls == 3
\* timeout_s is one of 0..MaxTimeout seconds.
MaxTimeout == 3
\* poll_period_s is one of 0..MaxPollPeriod seconds.
MaxPollPeriod == 2
\* A GetOperation call takes 0..MaxFetchSeconds whole seconds.
MaxFetchSeconds == 1
\* At most this many methods are called on one Kubeconfig object.
MaxCalls == 2
\* A thread calls GetOnGCE at most this many times.
MaxGceCalls == 2
\* The clock advances at most this many times.
MaxTicks == 2

-----------------------------------------------------------------------------
(* Python truth values of the modelled flags. *)

Truthy(v) == v \in {"True", "set", "valid", "badkey"}

IsNone(v) == v = "None"

-----------------------------------------------------------------------------
(* Node-pool sharding of CreateClusterCommon. *)

MAX_NODES_PER_POOL == 1000

\* options.max_nodes_per_pool or MAX_NODES_PER_POOL (None is modelled as 0,
\* which Python's `or` treats alike).
MaxNodesPerPoolOrDefault(m) == IF m = 0 THEN MAX_NODES_PER_POOL ELSE m

\* A pool count that rounds down instead of up.
PoolCountFloor(num_nodes, max_nodes_per_pool) ==
    IF num_nodes \div max_nodes_per_pool = 0 THEN 1
    ELSE num_nodes \div max_nodes_per_pool

\* pools = (num_nodes + max_nodes_per_pool - 1) / max_nodes_per_pool
PoolCount(num_nodes, max_nodes_per_pool) ==
    (num_nodes + max_nodes_per_pool - 1) \div max_nodes_per_pool

\* ['default-pool'] or ['default-pool-{0}'.format(i) for i in range(0, pools)]
PoolNames(pools) ==
    IF pools = 1 THEN <<"default-pool">>
    ELSE [i \in 1..pools |-> "default-pool-" \o ToString(i - 1)]

\* A share per pool that is one node too large.
PerPoolOneMore(num_nodes, pool_names) ==
    (num_nodes + Len(pool_names) - 1) \div Len(pool_names) + 1

\* per_pool = (num_nodes + len(pool_names) - 1) / len(pool_names)
PerPool(num_nodes, pool_names) ==
    (num_nodes + Len(pool_names) - 1) \div Len(pool_names)

\* A pool size that ignores what is left to add.
NodesForPoolNoRemainder(per_pool, to_add) == per_pool

\* nodes = per_pool if (to_add > per_pool) else to_add
NodesForPool(per_pool, to_add) == IF to_add > per_pool THEN per_pool ELSE to_add

\* The loop `for name in pool_names`, from index i on, with to_add nodes left.
RECURSIVE BuildPools(_, _, _, _)
BuildPools(pool_names, per_pool, to_add, i) ==
    IF i > Len(pool_names) THEN << >>
    ELSE LET nodes == NodesForPool(per_pool, to_add)
         IN  <<[name |-> pool_names[i], initialNodeCount |-> nodes]>>
             \o BuildPools(pool_names, per_pool, to_add - nodes, i + 1)

\* The nodePools of the cluster CreateClusterCommon builds.
NodePools(num_nodes, max_nodes_per_pool_opt) ==
    LET max_nodes_per_pool == MaxNodesPerPoolOrDefault(max_nodes_per_pool_opt)
        pool_names == PoolNames(PoolCount(num_nodes, max_nodes_per_pool))
    IN  BuildPools(pool_names, PerPool(num_nodes, pool_names), num_nodes, 1)

-----------------------------------------------------------------------------
(* CreateClusterOptions: the options that decide the node pools or that a  *)
(* check of CreateClusterCommon reads.                                     *)

\* The constructor's defaults; num_nodes is the command's default of 3.
DefaultNumNodes == 3

CreateClusterOptions ==
    [ num_nodes                     |-> DefaultNumNodes,
      max_nodes_per_pool            |-> 0,
      node_source_image             |-> "None",
      node_taints                   |-> "None",
      workload_metadata_from_node   |-> "None",
      enable_main_authorized_networks |-> "None",
      main_authorized_networks      |-> "None",
      enable_kubernetes_alpha       |-> "None",
      enable_shared_network         |-> "None",
      enable_ip_alias               |-> "None",
      subnetwork                    |-> "None",
      create_subnetwork             |-> "None",
      services_ipv4_cidr            |-> "None",
      cluster_ipv4_cidr             |-> "None",
      cluster_secondary_range_name  |-> "None",
      services_secondary_range_name |-> "None",
      allow_route_overlap           |-> "None",
      enable_tpu                    |-> "None",
      tpu_ipv4_cidr                 |-> "None",
      enable_autoprovisioning       |-> "None",
      max_cpu                       |-> "None",
      max_memory                    |-> "None",
      accelerator_limits            |-> "None",
      local_ssd_volume_configs      |-> "None" ]

\* The values a caller can give each option (besides its default).
CreateOptionValues ==
    [ num_nodes                     |-> (1..MaxNumNodes) \cup {2500},
      max_nodes_per_pool            |-> (1..MaxPerPool) \cup {MAX_NODES_PER_POOL},
      node_source_image             |-> {"set"},
      node_taints                   |-> {"valid", "badformat", "badeffect"},
      workload_metadata_from_node   |-> {"valid", "unknown"},
      enable_main_authorized_networks |-> {"True", "False"},
      main_authorized_networks      |-> {"set"},
      enable_kubernetes_alpha       |-> {"True", "False"},
      enable_shared_network         |-> {"True", "False"},
      enable_ip_alias               |-> {"True", "False"},
      subnetwork                    |-> {"set"},
      create_subnetwork             |-> {"empty", "valid", "badkey"},
      services_ipv4_cidr            |-> {"set"},
      cluster_ipv4_cidr             |-> {"set"},
      cluster_secondary_range_name  |-> {"set"},
      services_secondary_range_name |-> {"set"},
      allow_route_overlap           |-> {"True", "False"},
      enable_tpu                    |-> {"True", "False"},
      tpu_ipv4_cidr                 |-> {"set"},
      enable_autoprovisioning       |-> {"True", "False"},
      max_cpu                       |-> {"set"},
      max_memory                    |-> {"set"},
      accelerator_limits            |-> {"max_only", "same_type", "other_type"},
      local_ssd_volume_configs      |-> {"valid", "badformat"} ]

Raised(msg) == [raised |-> TRUE, error |-> msg]

NotRaised == [raised |-> FALSE, error |-> ""]

\* _AddNodeTaintsToNodeConfig: a taint that is not value:effect, or whose
\* effect is unknown, is an error.
AddNodeTaintsToNodeConfig(o) ==
    CASE o.node_taints = "badformat" -> Raised("NODE_TAINT_INCORRECT_FORMAT")
      [] o.node_taints = "badeffect" -> Raised("NODE_TAINT_INCORRECT_EFFECT")
      [] OTHER -> NotRaised

\* _AddWorkloadMetadataToNodeConfig
AddWorkloadMetadataToNodeConfig(o) ==
    IF o.workload_metadata_from_node = "unknown"
    THEN Raised("UNKNOWN_WORKLOAD_METADATA_FROM_NODE")
    ELSE NotRaised

\* A cluster builder that accepts authorized networks without the enable flag.
AuthorizedNetworksUnchecked(o) == NotRaised

\* if options.enable_main_authorized_networks: ... elif
\* options.main_authorized_networks: raise
AuthorizedNetworks(o) ==
    IF Truthy(o.enable_main_authorized_networks) THEN NotRaised
    ELSE IF Truthy(o.main_authorized_networks)
         THEN Raised("MISMATCH_AUTHORIZED_NETWORKS")
         ELSE NotRaised

\* ParseNetworkConfigOptions: the first missing prerequisite of a shared
\* network is named.
ParseNetworkConfigOptions(o) ==
    IF ~Truthy(o.enable_shared_network) THEN NotRaised
    ELSE CASE ~Truthy(o.enable_kubernetes_alpha) ->
                Raised("MissingArgForSharedSubnet enable-kubernetes-alpha")
           [] ~Truthy(o.enable_ip_alias) ->
                Raised("MissingArgForSharedSubnet enable-ip-alias")
           [] ~Truthy(o.subnetwork) ->
                Raised("MissingArgForSharedSubnet subnetwork")
           [] ~Truthy(o.cluster_secondary_range_name) ->
                Raised("MissingArgForSharedSubnet cluster-secondary-range-name")
           [] ~Truthy(o.services_secondary_range_name) ->
                Raised("MissingArgForSharedSubnet services-secondary-range-name")
           [] OTHER -> NotRaised

\* A ParseIPAliasOptions without the check of create_subnetwork against the
\* secondary range names.
ParseIPAliasOptionsNoExplicitRangesCheck(o) ==
    IF ~Truthy(o.enable_ip_alias) /\ Truthy(o.services_ipv4_cidr)
    THEN Raised("Cannot specify --services-ipv4-cidr without --enable-ip-alias")
    ELSE IF ~Truthy(o.enable_ip_alias) /\ Truthy(o.create_subnetwork)
    THEN Raised("Cannot specify --create-subnetwork without --enable-ip-alias")
    ELSE IF ~Truthy(o.enable_ip_alias) /\ Truthy(o.cluster_secondary_range_name)
    THEN Raised("Cannot specify --cluster-secondary-range-name without --enable-ip-alias")
    ELSE IF ~Truthy(o.enable_ip_alias) /\ Truthy(o.services_secondary_range_name)
    THEN Raised("Cannot specify --services-secondary-range-name without --enable-ip-alias")
    ELSE IF Truthy(o.subnetwork) /\ ~IsNone(o.create_subnetwork)
    THEN Raised("CREATE_SUBNETWORK_WITH_SUBNETWORK")
    ELSE IF Truthy(o.cluster_secondary_range_name)
            # Truthy(o.services_secondary_range_name)
    THEN Raised("MISSING_EXPLICIT_SECONDARY_RANGE")
    ELSE IF Truthy(o.enable_ip_alias) /\ o.create_subnetwork = "badkey"
    THEN Raised("CREATE_SUBNETWORK_INVALID_KEY")
    ELSE NotRaised

\* ParseIPAliasOptions, check by check in the order of the code.
ParseIPAliasOptions(o) ==
    IF ~Truthy(o.enable_ip_alias) /\ Truthy(o.services_ipv4_cidr)
    THEN Raised("Cannot specify --services-ipv4-cidr without --enable-ip-alias")
    ELSE IF ~Truthy(o.enable_ip_alias) /\ Truthy(o.create_subnetwork)
    THEN Raised("Cannot specify --create-subnetwork without --enable-ip-alias")
    ELSE IF ~Truthy(o.enable_ip_alias) /\ Truthy(o.cluster_secondary_range_name)
    THEN Raised("Cannot specify --cluster-secondary-range-name without --enable-ip-alias")
    ELSE IF ~Truthy(o.enable_ip_alias) /\ Truthy(o.services_secondary_range_name)
    THEN Raised("Cannot specify --services-secondary-range-name without --enable-ip-alias")
    ELSE IF Truthy(o.subnetwork) /\ ~IsNone(o.create_subnetwork)
    THEN Raised("CREATE_SUBNETWORK_WITH_SUBNETWORK")
    ELSE IF ~IsNone(o.create_subnetwork)
            /\ (Truthy(o.cluster_secondary_range_name)
                \/ Truthy(o.services_secondary_range_name))
    THEN Raised("CREATE_SUBNETWORK_WITH_EXPLICIT_SECONDARY_RANGES")
    ELSE IF Truthy(o.cluster_secondary_range_name)
            # Truthy(o.services_secondary_range_name)
    THEN Raised("MISSING_EXPLICIT_SECONDARY_RANGE")
    ELSE IF Truthy(o.enable_ip_alias) /\ o.create_subnetwork = "badkey"
    THEN Raised("CREATE_SUBNETWORK_INVALID_KEY")
    ELSE NotRaised

\* ParseAllowRouteOverlapOptions
ParseAllowRouteOverlapOptions(o) ==
    IF ~Truthy(o.allow_route_overlap) THEN NotRaised
    ELSE IF IsNone(o.cluster_ipv4_cidr)
    THEN Raised("ALLOW_ROUTE_OVERLAP_WITHOUT_CLUSTER_CIDR")
    ELSE IF Truthy(o.enable_ip_alias) /\ IsNone(o.services_ipv4_cidr)
    THEN Raised("ALLOW_ROUTE_OVERLAP_WITHOUT_SERVICES_CIDR")
    ELSE NotRaised

\* A ParseTpuOptions that does not ask for enable_ip_alias.
ParseTpuOptionsNoIpAliasCheck(o) ==
    IF Truthy(o.enable_tpu) /\ ~Truthy(o.enable_kubernetes_alpha)
    THEN Raised("Cannot specify --enable-tpu without --enable-kubernetes-alpha")
    ELSE IF ~Truthy(o.enable_tpu) /\ Truthy(o.tpu_ipv4_cidr)
    THEN Raised("Cannot specify --tpu-ipv4-cidr without --enable-tpu")
    ELSE NotRaised

\* ParseTpuOptions
ParseTpuOptions(o) ==
    IF Truthy(o.enable_tpu) /\ ~Truthy(o.enable_kubernetes_alpha)
    THEN Raised("Cannot specify --enable-tpu without --enable-kubernetes-alpha")
    ELSE IF Truthy(o.enable_tpu) /\ ~Truthy(o.enable_ip_alias)
    THEN Raised("Cannot specify --enable-tpu without --enable-ip-alias")
    ELSE IF ~Truthy(o.enable_tpu) /\ Truthy(o.tpu_ipv4_cidr)
    THEN Raised("Cannot specify --tpu-ipv4-cidr without --enable-tpu")
    ELSE NotRaised

\* The first of the checks, in the order given, that raises.
RECURSIVE FirstRaised(_)
FirstRaised(checks) ==
    IF checks = << >> THEN NotRaised
    ELSE IF Head(checks).raised THEN Head(checks)
    ELSE FirstRaised(Tail(checks))

\* CreateClusterCommon: the error it raises, or the cluster it returns (its
\* node pools and its enableTpu field).
CreateClusterCommon(o) ==
    LET check == FirstRaised(<<
            IF Truthy(o.node_source_image)
            THEN Raised("cannot specify node source image in container v1 api")
            ELSE NotRaised,
            AddNodeTaintsToNodeConfig(o),
            AddWorkloadMetadataToNodeConfig(o),
            AuthorizedNetworks(o),
            ParseNetworkConfigOptions(o),
            ParseIPAliasOptions(o),
            ParseAllowRouteOverlapOptions(o),
            ParseTpuOptions(o) >>)
    IN  IF check.raised
        THEN [raised |-> TRUE, error |-> check.error,
              nodePools |-> << >>, enableTpu |-> FALSE]
        ELSE [raised |-> FALSE, error |-> "",
              nodePools |-> NodePools(o.num_nodes, o.max_nodes_per_pool),
              enableTpu |-> Truthy(o.enable_tpu)]

\* APIAdapter.CreateClusterAutoscalingCommon: the base class has no
\* autoprovisioning.
BaseCreateClusterAutoscalingCommon(o) == Raised("NO_AUTOPROVISIONING")

\* V1Alpha1Adapter.CreateClusterAutoscalingCommon
AlphaCreateClusterAutoscalingCommon(o) ==
    IF Truthy(o.enable_autoprovisioning)
       /\ (IsNone(o.max_cpu) \/ IsNone(o.max_memory))
    THEN Raised("NO_AUTOPROVISIONING_LIMITS")
    ELSE IF o.accelerator_limits = "other_type"
    THEN Raised("MISMATCH_ACCELERATOR_TYPE_LIMITS")
    ELSE NotRaised

\* _AddLocalSSDVolumeConfigsToNodeConfig
AddLocalSSDVolumeConfigsToNodeConfig(o) ==
    IF o.local_ssd_volume_configs = "badformat"
    THEN Raised("LOCAL_SSD_INCORRECT_FORMAT")
    ELSE NotRaised

\* An adapter method that sends its request before it validates.
AdapterResultSendFirst(check, method, body) ==
    [raised |-> check.raised, error |-> check.error,
     requests |-> <<[method |-> method, body |-> body]>>]

\* What an adapter method did: the error it raised (if any) and the requests
\* it sent to the remote API before returning or raising.
AdapterResult(check, method, body) ==
    [raised |-> check.raised, error |-> check.error,
     requests |-> IF check.raised THEN << >>
                  ELSE <<[method |-> method, body |-> body]>>]

\* V1Adapter.CreateCluster, V1Beta1Adapter.CreateCluster and
\* V1Alpha1Adapter.CreateCluster: build the cluster, then send the request.
CreateCluster(api, o) ==
    LET common == CreateClusterCommon(o)
        check == IF api = "v1alpha1"
                 THEN FirstRaised(<<
                        common,
                        IF ~IsNone(o.enable_autoprovisioning)
                        THEN AlphaCreateClusterAutoscalingCommon(o)
                        ELSE NotRaised,
                        AddLocalSSDVolumeConfigsToNodeConfig(o) >>)
                 ELSE common
    IN  AdapterResult(check, "clusters.Create",
                      [nodePools |-> common.nodePools,
                       enableTpu |-> common.enableTpu])

-----------------------------------------------------------------------------
(* UpdateClusterOptions and UpdateClusterCommon. *)

UpdateClusterOptions ==
    [ update_nodes                  |-> "False",
      update_main                   |-> "False",
      monitoring_service            |-> "None",
      disable_addons                |-> "None",
      enable_autoscaling            |-> "None",
      locations                     |-> "None",
      enable_main_authorized_networks |-> "None",
      main_authorized_networks      |-> "None",
      enable_autoprovisioning       |-> "None",
      enable_pod_security_policy    |-> "None",
      enable_binauthz               |-> "None",
      max_cpu                       |-> "None",
      max_memory                    |-> "None",
      accelerator_limits            |-> "None" ]

UpdateOptionValues ==
    [ update_nodes                  |-> {"True"},
      update_main                   |-> {"True"},
      monitoring_service            |-> {"set"},
      disable_addons                |-> {"set"},
      enable_autoscaling            |-> {"True", "False"},
      locations                     |-> {"set"},
      enable_main_authorized_networks |-> {"True", "False"},
      main_authorized_networks      |-> {"set"},
      enable_autoprovisioning       |-> {"True", "False"},
      enable_pod_security_policy    |-> {"True", "False"},
      enable_binauthz               |-> {"True", "False"},
      max_cpu                       |-> {"set"},
      max_memory                    |-> {"set"},
      accelerator_limits            |-> {"max_only", "same_type", "other_type"} ]

\* An if / elif chain that looks at update_main before update_nodes.
UpdateKindMainFirst(o) ==
    CASE Truthy(o.update_main)                         -> "update_main"
      [] Truthy(o.update_nodes)                        -> "update_nodes"
      [] Truthy(o.monitoring_service)                  -> "monitoring_service"
      [] Truthy(o.disable_addons)                      -> "disable_addons"
      [] ~IsNone(o.enable_autoscaling)                 -> "enable_autoscaling"
      [] Truthy(o.locations)                           -> "locations"
      [] ~IsNone(o.enable_main_authorized_networks)    -> "enable_main_authorized_networks"
      [] ~IsNone(o.enable_autoprovisioning)            -> "enable_autoprovisioning"
      [] ~IsNone(o.enable_pod_security_policy)         -> "enable_pod_security_policy"
      [] ~IsNone(o.enable_binauthz)                    -> "enable_binauthz"
      [] OTHER                                         -> "unbound"

\* The if / elif chain of UpdateClusterCommon: the kind of update it builds,
\* "unbound" when no branch is taken.
UpdateKind(o) ==
    CASE Truthy(o.update_nodes)                        -> "update_nodes"
      [] Truthy(o.update_main)                         -> "update_main"
      [] Truthy(o.monitoring_service)                  -> "monitoring_service"
      [] Truthy(o.disable_addons)                      -> "disable_addons"
      [] ~IsNone(o.enable_autoscaling)                 -> "enable_autoscaling"
      [] Truthy(o.locations)                           -> "locations"
      [] ~IsNone(o.enable_main_authorized_networks)    -> "enable_main_authorized_networks"
      [] ~IsNone(o.enable_autoprovisioning)            -> "enable_autoprovisioning"
      [] ~IsNone(o.enable_pod_security_policy)         -> "enable_pod_security_policy"
      [] ~IsNone(o.enable_binauthz)                    -> "enable_binauthz"
      [] OTHER                                         -> "unbound"

\* The fields of the ClusterUpdate message that the branch of a kind sets.
ClusterUpdate(kind) ==
    CASE kind = "update_nodes" ->
            {"desiredNodeVersion", "desiredNodePoolId", "desiredImageType"}
      [] kind = "update_main" -> {"desiredMainVersion"}
      [] kind = "monitoring_service" -> {"desiredMonitoringService"}
      [] kind = "disable_addons" -> {"desiredAddonsConfig"}
      [] kind = "enable_autoscaling" ->
            {"desiredNodePoolId", "desiredNodePoolAutoscaling"}
      [] kind = "locations" -> {"desiredLocations"}
      [] kind = "enable_main_authorized_networks" ->
            {"desiredMainAuthorizedNetworksConfig"}
      [] kind = "enable_autoprovisioning" -> {"desiredClusterAutoscaling"}
      [] kind = "enable_pod_security_policy" -> {"desiredPodSecurityPolicyConfig"}
      [] kind = "enable_binauthz" -> {"desiredBinaryAuthorization"}
      [] OTHER -> {}

\* UpdateClusterCommon: the error it raises, or the kind of the one update it
\* returns.  The autoprovisioning branch calls CreateClusterAutoscalingCommon
\* of the adapter class; the authorized-networks check follows the chain; a
\* chain that took no branch leaves `update` unbound at the return.
UpdateClusterCommon(api, o) ==
    LET kind == UpdateKind(o)
        check == FirstRaised(<<
            IF kind = "enable_autoprovisioning"
            THEN IF api = "v1alpha1"
                 THEN AlphaCreateClusterAutoscalingCommon(o)
                 ELSE BaseCreateClusterAutoscalingCommon(o)
            ELSE NotRaised,
            IF Truthy(o.main_authorized_networks)
               /\ ~Truthy(o.enable_main_authorized_networks)
            THEN Raised("MISMATCH_AUTHORIZED_NETWORKS")
            ELSE NotRaised,
            IF kind = "unbound"
            THEN Raised("UnboundLocalError: update")
            ELSE NotRaised >>)
    IN  [raised |-> check.raised, error |-> check.error,
         update |-> IF check.raised THEN "none" ELSE kind,
         fields |-> IF check.raised THEN {} ELSE ClusterUpdate(kind)]

\* V1Adapter.UpdateCluster and V1Beta1Adapter.UpdateCluster (inherited by
\* V1Alpha1Adapter): build the update, then send the request.
UpdateCluster(api, o) ==
    LET common == UpdateClusterCommon(api, o)
    IN  AdapterResult(common, "clusters.Update",
                      [update |-> common.update, fields |-> common.fields])

-----------------------------------------------------------------------------
(* WaitForOperation: the polling loop.                                     *)
(*                                                                         *)
(* Time is counted in whole seconds.  The process has a wall clock and a   *)
(* processor-time clock; time.clock() reads the processor time on Unix and *)
(* the wall clock on Windows.  Time passes while GetOperation is waiting   *)
(* for the server (which may or may not cost processor time) and while the *)
(* process sleeps (which costs none).                                      *)

Platforms == {"unix", "windows"}

\* time.clock()
Clock(pf, wall_now, cpu_now) == IF pf = "windows" THEN wall_now ELSE cpu_now

\* What a GetOperation call can produce: an Operation message, or an
\* apitools HttpError with a status code.
OperationMsg(status, statusMessage) ==
    [kind |-> "Operation", status |-> status,
     statusMessage |-> statusMessage, status_code |-> 200]

HttpError(status_code) ==
    [kind |-> "HttpError", status |-> "", statusMessage |-> "",
     status_code |-> status_code]

FORBIDDEN == 403

GetOperationOutcomes ==
    { OperationMsg("RUNNING", ""), OperationMsg("DONE", ""),
      OperationMsg("DONE", "quota exceeded"),
      HttpError(FORBIDDEN), HttpError(500) }

Unbound == OperationMsg("<unbound>", "")

\* IsOperationFinished
IsOperationFinished(op) == op.status = "DONE"

\* An operation error that is never reported.
GetOperationErrorIgnored(op) == ""

\* GetOperationError
GetOperationError(op) == op.statusMessage

\* while timeout_s > (time.clock() - start_time)
LoopCondition(timeout, now, start) == timeout > (now - start)

\* A loop body that keeps polling after the operation is done.
FetchOutcomeNoBreak(resp) ==
    IF resp.kind = "HttpError"
    THEN IF resp.status_code = FORBIDDEN THEN "raise" ELSE "sleep"
    ELSE "sleep"

\* A loop body that retries after a 403 like after any other HTTP error.
FetchOutcomeRetryForbidden(resp) ==
    IF resp.kind = "HttpError" THEN "sleep"
    ELSE IF resp.status = "DONE" THEN "break" ELSE "sleep"

\* The try / except of the loop body: what follows a GetOperation outcome.
FetchOutcome(resp) ==
    IF resp.kind = "HttpError"
    THEN IF resp.status_code = FORBIDDEN THEN "raise" ELSE "sleep"
    ELSE IF IsOperationFinished(resp) THEN "break" ELSE "sleep"

\* The statements after the loop: what WaitForOperation returns or raises.
\* With no operation ever assigned, the first use of `operation` fails.
WaitOutcome(op) ==
    IF op = Unbound
    THEN [kind |-> "UnboundLocalError", operation |-> Unbound, payload |-> ""]
    ELSE IF ~IsOperationFinished(op)
    THEN [kind |-> "Timeout", operation |-> op, payload |-> ""]
    ELSE IF GetOperationError(op) # ""
    THEN [kind |-> "OperationError", operation |-> op,
          payload |-> GetOperationError(op)]
    ELSE [kind |-> "returned", operation |-> op, payload |-> ""]

NoWaitResult == [kind |-> "none", operation |-> Unbound, payload |-> ""]

\* The wait variables while WaitForOperation is not being called.
IdleWait ==
    /\ wait_pc = "idle"
    /\ timeout_s = 0
    /\ poll_period_s = 0
    /\ platform = "unix"
    /\ wall = 0
    /\ cpu = 0
    /\ start_time = 0
    /\ wall_start = 0
    /\ operation = Unbound
    /\ history = << >>
    /\ sleeps = 0
    /\ wait_result = NoWaitResult

\* The arguments of a call WaitForOperation(operation_ref, message,
\* timeout_s, poll_period_s) and the locals before its first statement.
WaitArgs(timeout, poll_period) ==
    /\ timeout_s = timeout
    /\ poll_period_s = poll_period
    /\ platform \in Platforms
    /\ wall = 0
    /\ cpu = 0
    /\ start_time = 0
    /\ wall_start = 0
    /\ operation = Unbound
    /\ history = << >>
    /\ sleeps = 0
    /\ wait_result = NoWaitResult

-----------------------------------------------------------------------------
(* A call of the adapter: a caller builds the options object, then calls   *)
(* CreateCluster or UpdateCluster once.                                    *)

APIVersions == {"v1", "v1beta1", "v1alpha1"}

NoOutcome == [raised |-> FALSE, error |-> "not called"]

\* The (num_nodes, max_nodes_per_pool) pairs tried; max_nodes_per_pool 0 is
\* None.
PoolInputs ==
    ((1..MaxNumNodes) \X ((0..MaxPerPool) \cup {MAX_NODES_PER_POOL}))
    \cup {<<2500, 0>>, <<2500, MAX_NODES_PER_POOL>>}

DefaultOptions(c) ==
    IF c = "CreateCluster" THEN CreateClusterOptions ELSE UpdateClusterOptions

OptionValues(c) ==
    IF c = "CreateCluster" THEN CreateOptionValues ELSE UpdateOptionValues

-----------------------------------------------------------------------------
(* The Kubeconfig object: three name -> entry dictionaries built from the  *)
(* lists of the loaded document, and the document's current-context.       *)

\* The names of the entries of the loaded document, and the keys tried.
EntryNames == {"c1", "c2"}

Keys == EntryNames \cup {"other", ""}

\* The entries' contents (two different ones are enough to tell a changed
\* entry from an unchanged one).
Bodies == {"entry-a", "entry-b"}

\* Every dictionary of entries the constructor can build.
Dicts == UNION {[D -> Bodies] : D \in SUBSET EntryNames}

\* The document has no current-context key.
Absent == "<absent>"

\* dict.pop(key, None)
Pop(dict, key) == [k \in (DOMAIN dict) \ {key} |-> dict[k]]

\* A current-context that is cleared whatever it was.
ClearedCurrentContextAlways(current, key) == ""

\* if self._data.get('current-context') == key:
\*   self._data['current-context'] = ''
ClearedCurrentContext(current, key) == IF current = key THEN "" ELSE current

KubeconfigObject ==
    [clusters |-> kc_clusters, users |-> kc_users, contexts |-> kc_contexts,
     current |-> kc_current]

\* The Kubeconfig variables while no Kubeconfig object is modelled.
IdleKube ==
    /\ kc_clusters = << >>
    /\ kc_users = << >>
    /\ kc_contexts = << >>
    /\ kc_current = ""
    /\ kc_calls = 0
    /\ kc_last = [op |-> "none", arg |-> ""]
    /\ kc_before = [clusters |-> << >>, users |-> << >>, contexts |-> << >>,
                    current |-> ""]

-----------------------------------------------------------------------------
(* The kubeconfig file.  A document is the sequence of the lines yaml.dump  *)
(* writes for it, one top-level key a line; a line is <<key, version>>.    *)
(* The file object writes the lines front to back, in one or several       *)
(* write calls; a reader gets the lines the file holds when it reads.      *)

\* The keys of a kubeconfig document that _Validate and the constructor read.
DocumentKeys == <<"clusters", "contexts", "current-context", "users">>

Document(version) == [i \in 1..Len(DocumentKeys) |-> <<DocumentKeys[i], version>>]

\* The document the file holds before the save, the one SaveToFile writes,
\* and EmptyKubeconfig().
PreviousDocument == Document("previous")

NewDocument == Document("new")

EmptyKubeconfig == Document("empty")

NotRead == <<"<not read>">>

NoDocument == <<"<none>">>

\* An open that leaves the content of an existing file in place.
OpenedWithoutTruncate(content) == content

\* os.open(self._filename, os.O_WRONLY | os.O_TRUNC | os.O_CREAT, 0o600)
Opened(content) == << >>

\* The zero bytes the file system puts between the end of a file and a
\* write beyond it.
Hole == <<"<zero bytes>", "">>

\* A write of `chunk` at line offset pos of a file holding `content`.
Written(content, pos, chunk) ==
    LET end == pos + Len(chunk)
        before == [i \in 1..pos |-> IF i <= Len(content) THEN content[i] ELSE Hole]
    IN  before \o chunk \o SubSeq(content, end + 1, Len(content))

\* The keys of the lines a reader got.
KeysOf(content) == {content[i][1] : i \in 1..Len(content)}

\* Kubeconfig._Validate: the error it raises, or "ok".
Validate(content) ==
    IF content = << >> THEN "empty file"
    ELSE IF {"clusters", "users", "contexts"} \subseteq KeysOf(content)
    THEN "ok" ELSE "expected key not found"

-----------------------------------------------------------------------------
(* The GCE cache.  An optional Python value is << >> (None) or <<v>>; the   *)
(* cache file's content is a string.                                       *)

_GCE_CACHE_MAX_AGE == 600

None == << >>

Some(v) == <<v>>

\* str(on_gce) of a bool, written in another spelling.
StrLowerCase(on_gce) == IF on_gce THEN "true" ELSE "false"

\* str(on_gce) of a bool
Str(on_gce) == IF on_gce THEN "True" ELSE "False"

\* The process a thread belongs to.
ProcessOf(t) == IF t \in {"p1t1", "p1t2"} THEN "p1" ELSE "p2"

Processes == {"p1", "p2"}

Threads == {"p1t1", "p1t2", "p2t1"}

NoFile == "<absent>"

\* The two texts a well-formed cache file can hold.
BooleanLiterals == {"True", "False"}

\* What a file that was opened for writing holds before the text is
\* written: nothing.
UnfinishedTexts == {""}

\* _OnGCECache(): connected=None, expiration_time=None
EmptyMemory == [connected |-> None, expiration_time |-> None]

\* A memory check with the comparison of the expiry the wrong way round.
CheckMemoryInverted(mem, check_age, now) ==
    IF ~check_age THEN mem.connected
    ELSE IF mem.expiration_time # None /\ mem.expiration_time[1] <= now
    THEN mem.connected
    ELSE None

\* _CheckMemory
CheckMemory(mem, check_age, now) ==
    IF ~check_age THEN mem.connected
    ELSE IF mem.expiration_time # None /\ mem.expiration_time[1] >= now
    THEN mem.connected
    ELSE None

\* A disk check that takes a file without a boolean literal for unreadable.
CheckDiskLiteralsOnly(disk) ==
    IF disk.content \notin BooleanLiterals
    THEN [connected |-> None, expiration_time |-> None]
    ELSE [connected |-> Some(disk.content = Str(TRUE)),
          expiration_time |-> Some(disk.mtime + _GCE_CACHE_MAX_AGE)]

\* _CheckDisk, inside the lock: (on_gce, expiration_time) read from the file,
\* or (None, None) when it cannot be read.
CheckDisk(disk) ==
    IF disk.content = NoFile
    THEN [connected |-> None, expiration_time |-> None]
    ELSE [connected |-> Some(disk.content = Str(TRUE)),
          expiration_time |-> Some(disk.mtime + _GCE_CACHE_MAX_AGE)]

\* _CheckServer: the probe answers True or False.
CheckServer == BOOLEAN

\* with self.file_lock: the lock of the thread's process is free.
LockFree(lock, t) == lock[ProcessOf(t)] = "free"

\* files.OpenForWritingPrivate(path) and the write of `text` through it, at
\* time now: afterwards the file holds that text.
FileWritten(text, now) == [content |-> text, mtime |-> now]

\* What a thread has when it is not in a call.
NoCall ==
    [check_age |-> TRUE, on_gce |-> None, disk_result |-> EmptyMemory,
     seen |-> NoFile, read_disk |-> FALSE, probed |-> FALSE,
     written |-> NoFile, time |-> 0]

\* The time at which the modelled processes start; a cache file written at
\* time 0 has expired by then.
StartTime == _GCE_CACHE_MAX_AGE + 1

\* The threads that are inside a GetOnGCE call.
InCall == {t \in Threads : gce_pc[t] # "idle"}

\* The GCE cache variables while no GCE cache is modelled.
IdleGce ==
    /\ gce_threads = {}
    /\ gce_now = 0
    /\ gce_ticks = 0
    /\ gce_disk = [content |-> NoFile, mtime |-> 0]
    /\ gce_mem = [p \in Processes |-> EmptyMemory]
    /\ gce_lock = [p \in Processes |-> "free"]
    /\ gce_pc = [t \in Threads |-> "idle"]
    /\ gce_local = [t \in Threads |-> NoCall]
    /\ gce_log = << >>

\* The file variables while no kubeconfig file is modelled.
IdleFile ==
    /\ file_content = << >>
    /\ save_pc = "idle"
    /\ save_pos = 0
    /\ load_mode = "LoadFromFile"
    /\ load_pc = "idle"
    /\ load_seen = NotRead
    /\ load_pos = 0
    /\ load_result = NoDocument

\* The variables of NodeIdentityOptionsToNodeConfig while it is not modelled.
IdleScopes ==
    /\ scope_pc = "idle"
    /\ scope_table = << >>
    /\ scope_property = FALSE
    /\ scope_options = << >>
    /\ scope_result = << >>

\* The variables of kubeconfig.User while it is not modelled.
IdleUser ==
    /\ user_pc = "idle"
    /\ user_args = << >>
    /\ user_result = << >>

IdlePure == IdleScopes /\ IdleUser

\* The label variables while no label call is modelled.
IdleLabels ==
    /\ lbl_pc = "idle"
    /\ lbl_server = << >>
    /\ lbl_changes = 0
    /\ lbl_args = << >>
    /\ lbl_fetched = << >>
    /\ lbl_sent = << >>
    /\ lbl_result = << >>

\* The variables of a single library call while none is modelled.
IdleOp ==
    /\ op_pc = "idle"
    /\ op_input = << >>
    /\ op_result = << >>

IdleMore == IdleLabels /\ IdleOp

IdleExt == IdleFile /\ IdleGce /\ IdlePure /\ IdleMore

\* The variables of Run while no command is modelled.
IdleRun ==
    /\ run_pc = "idle"
    /\ async = FALSE
    /\ run_log = << >>
    /\ kubeconfig_written = FALSE
    /\ run_result = [kind |-> "none"]

\* The adapter variables while no adapter call is modelled.
IdleAdapter ==
    /\ call = "none"
    /\ api_version = "v1"
    /\ options = CreateClusterOptions
    /\ flags_set = 0
    /\ adapter_pc = "idle"
    /\ sent = << >>
    /\ outcome = NoOutcome

InitAdapter ==
    /\ call \in {"CreateCluster", "UpdateCluster"}
    /\ api_version \in APIVersions
    /\ options = DefaultOptions(call)
    /\ flags_set = 0
    /\ adapter_pc = "options"
    /\ sent = << >>
    /\ outcome = NoOutcome
    /\ IdleWait
    /\ IdleRun
    /\ IdleKube
    /\ IdleExt

\* The caller gives one option a value other than its default.
SetOption ==
    /\ adapter_pc = "options"
    /\ flags_set < MaxSet
    /\ \E f \in DOMAIN options \ {"num_nodes", "max_nodes_per_pool"} :
         \E v \in OptionValues(call)[f] :
            /\ options[f] = DefaultOptions(call)[f]
            /\ options' = [options EXCEPT ![f] = v]
    /\ flags_set' = flags_set + 1
    /\ UNCHANGED <<call, api_version, adapter_pc, sent, outcome>>
    /\ UNCHANGED notAdapterVars

\* The caller gives num_nodes and max_nodes_per_pool.
SetPoolOptions ==
    /\ adapter_pc = "options"
    /\ call = "CreateCluster"
    /\ flags_set + 2 <= MaxSet
    /\ options.num_nodes = DefaultNumNodes
    /\ options.max_nodes_per_pool = 0
    /\ \E p \in PoolInputs :
         options' = [options EXCEPT !.num_nodes = p[1],
                                    !.max_nodes_per_pool = p[2]]
    /\ flags_set' = flags_set + 2
    /\ UNCHANGED <<call, api_version, adapter_pc, sent, outcome>>
    /\ UNCHANGED notAdapterVars

\* adapter.CreateCluster(cluster_ref, options)
CallCreateCluster ==
    /\ adapter_pc = "options"
    /\ call = "CreateCluster"
    /\ LET r == CreateCluster(api_version, options)
       IN  /\ sent' = sent \o r.requests
           /\ outcome' = [raised |-> r.raised, error |-> r.error]
    /\ adapter_pc' = "done"
    /\ UNCHANGED <<call, api_version, options, flags_set>>
    /\ UNCHANGED notAdapterVars

\* adapter.UpdateCluster(cluster_ref, options)
CallUpdateCluster ==
    /\ adapter_pc = "options"
    /\ call = "UpdateCluster"
    /\ LET r == UpdateCluster(api_version, options)
       IN  /\ sent' = sent \o r.requests
           /\ outcome' = [raised |-> r.raised, error |-> r.error]
    /\ adapter_pc' = "done"
    /\ UNCHANGED <<call, api_version, options, flags_set>>
    /\ UNCHANGED notAdapterVars

NextAdapter ==
    \/ SetOption
    \/ SetPoolOptions
    \/ CallCreateCluster
    \/ CallUpdateCluster

SpecAdapter == InitAdapter /\ [][NextAdapter]_vars

-----------------------------------------------------------------------------
(* The steps of WaitForOperation. *)

\* start_time = time.clock()
WaitStart ==
    /\ wait_pc = "start"
    /\ start_time' = Clock(platform, wall, cpu)
    /\ wall_start' = wall
    /\ wait_pc' = "check"
    /\ UNCHANGED <<timeout_s, poll_period_s, platform, wall, cpu, operation,
                   history, sleeps, wait_result>>

\* The loop condition is evaluated; the loop body is entered or left.
WaitCheck ==
    /\ wait_pc = "check"
    /\ wait_pc' = IF LoopCondition(timeout_s, Clock(platform, wall, cpu), start_time)
                  THEN "fetch" ELSE "after_loop"
    /\ UNCHANGED <<timeout_s, poll_period_s, platform, wall, cpu, start_time,
                   wall_start, operation, history, sleeps, wait_result>>

\* operation = self.GetOperation(operation_ref), and the try / except
\* around it.  The call takes d seconds, c of them processor time.
WaitFetch ==
    /\ wait_pc = "fetch"
    /\ Len(history) < MaxPolls
    /\ \E resp \in GetOperationOutcomes, d \in 0..MaxFetchSeconds :
         \E c \in 0..d :
            /\ history' = Append(history, resp)
            /\ wall' = wall + d
            /\ cpu' = cpu + c
            /\ operation' = IF resp.kind = "Operation" THEN resp ELSE operation
            /\ wait_pc' = CASE FetchOutcome(resp) = "break" -> "after_loop"
                            [] FetchOutcome(resp) = "sleep" -> "sleep"
                            [] OTHER -> "raised"
            /\ wait_result' = IF FetchOutcome(resp) = "raise"
                              THEN [kind |-> "HttpException",
                                    operation |-> operation,
                                    payload |-> "403"]
                              ELSE wait_result
    /\ UNCHANGED <<timeout_s, poll_period_s, platform, start_time, wall_start,
                   sleeps>>

\* time.sleep(poll_period_s)
WaitSleep ==
    /\ wait_pc = "sleep"
    /\ wall' = wall + poll_period_s
    /\ sleeps' = sleeps + 1
    /\ wait_pc' = "check"
    /\ UNCHANGED <<timeout_s, poll_period_s, platform, cpu, start_time,
                   wall_start, operation, history, wait_result>>

\* The statements after the loop.
WaitFinish ==
    /\ wait_pc = "after_loop"
    /\ wait_result' = WaitOutcome(operation)
    /\ wait_pc' = IF WaitOutcome(operation).kind = "returned"
                  THEN "returned" ELSE "raised"
    /\ UNCHANGED <<timeout_s, poll_period_s, platform, wall, cpu, start_time,
                   wall_start, operation, history, sleeps>>

WaitStep == WaitStart \/ WaitCheck \/ WaitFetch \/ WaitSleep \/ WaitFinish

InitWait ==
    /\ wait_pc = "start"
    /\ \E t \in 0..MaxTimeout, p \in 0..MaxPollPeriod : WaitArgs(t, p)
    /\ IdleAdapter
    /\ IdleRun
    /\ IdleKube
    /\ IdleExt

NextWait ==
    \/ WaitStart /\ UNCHANGED notWaitVars
    \/ WaitCheck /\ UNCHANGED notWaitVars
    \/ WaitFetch /\ UNCHANGED notWaitVars
    \/ WaitSleep /\ UNCHANGED notWaitVars
    \/ WaitFinish /\ UNCHANGED notWaitVars

SpecWait == InitWait /\ [][NextWait]_vars

-----------------------------------------------------------------------------
(* `gcloud container clusters create`: Create.Run from the create request  *)
(* on.  WaitForOperation is called with timeout_s=args.timeout and the     *)
(* default poll period.                                                    *)

\* poll_period_s=5
DefaultPollPeriod == 5

\* The options a run is tried with: accepted ones, and ones that
\* CreateClusterCommon rejects.
RunOptions ==
    { CreateClusterOptions,
      [CreateClusterOptions EXCEPT !.num_nodes = 7, !.max_nodes_per_pool = 3],
      [CreateClusterOptions EXCEPT !.enable_tpu = "True"],
      [CreateClusterOptions EXCEPT !.main_authorized_networks = "set"] }

\* if args.async: return adapter.GetCluster(cluster_ref)
AfterCreate(is_async) == IF is_async THEN "async_get" ELSE "wait"

\* A command that goes on although WaitForOperation raised.
AfterWaitIgnoreFailure(result) == "get_cluster"

\* WaitForOperation returns the operation, or its exception leaves Run.
AfterWait(result) ==
    IF result.kind = "returned" THEN "get_cluster" ELSE "raised"

\* V1Adapter.GetCluster: the cluster, or an exception.  A cluster that is not
\* found is looked for in all zones (TryToGetCluster), which always raises.
GetClusterOutcomes ==
    { [kind |-> "cluster", requests |-> <<"clusters.Get">>],
      [kind |-> "util.Error", requests |-> <<"clusters.Get", "clusters.List">>],
      [kind |-> "HttpException", requests |-> <<"clusters.Get">>] }

\* util.ClusterConfig.Persist: writes the kubeconfig entries of the cluster,
\* or fails before writing because no kubeconfig path can be found
\* (MissingEnvVarError) or for another reason.
PersistOutcomes == {"written", "MissingEnvVarError", "Error"}

InitRun ==
    /\ call = "CreateCluster"
    /\ api_version \in APIVersions
    /\ options \in RunOptions
    /\ flags_set = 0
    /\ adapter_pc = "options"
    /\ sent = << >>
    /\ outcome = NoOutcome
    /\ wait_pc = "idle"
    /\ \E t \in 0..MaxTimeout : WaitArgs(t, DefaultPollPeriod)
    /\ run_pc = "create"
    /\ async \in BOOLEAN
    /\ run_log = << >>
    /\ kubeconfig_written = FALSE
    /\ run_result = [kind |-> "none"]
    /\ IdleKube
    /\ IdleExt

\* operation_ref = adapter.CreateCluster(cluster_ref, options): the options
\* are rejected, or the request is sent and the server answers with an
\* operation or an HTTP error (which Run re-raises as HttpException).
RunCreateCluster ==
    /\ run_pc = "create"
    /\ LET r == CreateCluster(api_version, options)
       IN  /\ sent' = sent \o r.requests
           /\ IF r.raised
              THEN /\ run_pc' = "raised"
                   /\ run_result' = [kind |-> "util.Error"]
                   /\ run_log' = run_log
                   /\ wait_pc' = wait_pc
              ELSE \E answered \in BOOLEAN :
                     IF answered
                     THEN /\ run_pc' = AfterCreate(async)
                          /\ run_result' = run_result
                          /\ run_log' = Append(run_log, "CreateCluster")
                          /\ wait_pc' = IF AfterCreate(async) = "wait"
                                        THEN "start" ELSE wait_pc
                     ELSE /\ run_pc' = "raised"
                          /\ run_result' = [kind |-> "HttpException"]
                          /\ run_log' = run_log
                          /\ wait_pc' = wait_pc
    /\ UNCHANGED <<timeout_s, poll_period_s, platform, wall, cpu, start_time,
                   wall_start, operation, history, sleeps, wait_result>>
    /\ UNCHANGED <<async, kubeconfig_written, api_version, options>>
    /\ UNCHANGED notRunVars

\* return adapter.GetCluster(cluster_ref), with --async.
RunAsyncGetCluster ==
    /\ run_pc = "async_get"
    /\ \E g \in GetClusterOutcomes :
         /\ sent' = sent \o [i \in 1..Len(g.requests) |->
                               [method |-> g.requests[i], body |-> << >>]]
         /\ run_pc' = IF g.kind = "cluster" THEN "returned" ELSE "raised"
         /\ run_result' = [kind |-> g.kind]
         /\ run_log' = IF g.kind = "cluster"
                       THEN Append(run_log, "GetCluster") ELSE run_log
    /\ UNCHANGED <<async, kubeconfig_written, api_version, options>>
    /\ UNCHANGED waitVars
    /\ UNCHANGED notRunVars

\* operation = adapter.WaitForOperation(...) has returned or raised.
RunWaitForOperation ==
    /\ run_pc = "wait"
    /\ wait_pc \in {"returned", "raised"}
    /\ run_pc' = AfterWait(wait_result)
    /\ run_result' = IF AfterWait(wait_result) = "raised"
                     THEN [kind |-> wait_result.kind] ELSE run_result
    /\ run_log' = IF AfterWait(wait_result) = "raised"
                  THEN run_log ELSE Append(run_log, "WaitForOperation")
    /\ UNCHANGED <<async, kubeconfig_written, api_version, options, sent>>
    /\ UNCHANGED waitVars
    /\ UNCHANGED notRunVars

\* cluster = adapter.GetCluster(cluster_ref)
RunGetCluster ==
    /\ run_pc = "get_cluster"
    /\ \E g \in GetClusterOutcomes :
         /\ sent' = sent \o [i \in 1..Len(g.requests) |->
                               [method |-> g.requests[i], body |-> << >>]]
         /\ run_pc' = IF g.kind = "cluster" THEN "persist" ELSE "raised"
         /\ run_result' = IF g.kind = "cluster" THEN run_result
                          ELSE [kind |-> g.kind]
         /\ run_log' = IF g.kind = "cluster"
                       THEN Append(run_log, "GetCluster") ELSE run_log
    /\ UNCHANGED <<async, kubeconfig_written, api_version, options>>
    /\ UNCHANGED waitVars
    /\ UNCHANGED notRunVars

\* util.ClusterConfig.Persist(cluster, cluster_ref.projectId), with a
\* MissingEnvVarError turned into a warning; then return [cluster].
RunPersist ==
    /\ run_pc = "persist"
    /\ \E p \in PersistOutcomes :
         /\ kubeconfig_written' = (p = "written")
         /\ run_pc' = IF p = "Error" THEN "raised" ELSE "returned"
         /\ run_result' = IF p = "Error" THEN [kind |-> "kubeconfig.Error"]
                          ELSE [kind |-> "cluster"]
         /\ run_log' = IF p = "written" THEN Append(run_log, "Persist")
                       ELSE run_log
    /\ UNCHANGED <<async, api_version, options, sent>>
    /\ UNCHANGED waitVars
    /\ UNCHANGED notRunVars

\* A step of the WaitForOperation call that Run is waiting for.
RunPolling ==
    /\ run_pc = "wait"
    /\ WaitStep
    /\ UNCHANGED notWaitVars

NextRun ==
    \/ RunCreateCluster
    \/ RunAsyncGetCluster
    \/ RunPolling
    \/ RunWaitForOperation
    \/ RunGetCluster
    \/ RunPersist

SpecRun == InitRun /\ [][NextRun]_vars

-----------------------------------------------------------------------------
(* Methods of a Kubeconfig object. *)

\* Kubeconfig(raw_data, filename)
InitKube ==
    /\ kc_clusters \in Dicts
    /\ kc_users \in Dicts
    /\ kc_contexts \in Dicts
    /\ kc_current \in Keys \cup {Absent}
    /\ kc_calls = 0
    /\ kc_last = [op |-> "none", arg |-> ""]
    /\ kc_before = KubeconfigObject
    /\ IdleAdapter
    /\ IdleWait
    /\ IdleRun
    /\ IdleExt

\* Kubeconfig.Clear(key)
Clear ==
    /\ kc_calls < MaxCalls
    /\ \E key \in Keys :
         /\ kc_contexts' = Pop(kc_contexts, key)
         /\ kc_clusters' = Pop(kc_clusters, key)
         /\ kc_users' = Pop(kc_users, key)
         /\ kc_current' = ClearedCurrentContext(kc_current, key)
         /\ kc_last' = [op |-> "Clear", arg |-> key]
    /\ kc_before' = KubeconfigObject
    /\ kc_calls' = kc_calls + 1
    /\ UNCHANGED notKubeVars

\* Kubeconfig.SetCurrentContext(context)
SetCurrentContext ==
    /\ kc_calls < MaxCalls
    /\ \E context \in Keys :
         /\ kc_current' = context
         /\ kc_last' = [op |-> "SetCurrentContext", arg |-> context]
    /\ kc_before' = KubeconfigObject
    /\ kc_calls' = kc_calls + 1
    /\ UNCHANGED <<kc_clusters, kc_users, kc_contexts>>
    /\ UNCHANGED notKubeVars

NextKube ==
    \/ Clear
    \/ SetCurrentContext

SpecKube == InitKube /\ [][NextKube]_vars

-----------------------------------------------------------------------------
(* One process saves a Kubeconfig while another loads the same file. *)

InitSave ==
    /\ file_content = PreviousDocument
    /\ save_pc = "open"
    /\ save_pos = 0
    /\ load_mode \in {"LoadFromFile", "LoadOrCreate"}
    /\ load_pc = "read"
    /\ load_seen = NotRead
    /\ load_pos = 0
    /\ load_result = NoDocument
    /\ IdleAdapter
    /\ IdleWait
    /\ IdleRun
    /\ IdleKube
    /\ IdleGce
    /\ IdlePure
    /\ IdleMore

\* SaveToFile: fd = os.open(...), or OSError turned into Error.
SaveOpen ==
    /\ save_pc = "open"
    /\ \E opened \in BOOLEAN :
         IF opened
         THEN /\ file_content' = Opened(file_content)
              /\ save_pc' = "write"
         ELSE /\ file_content' = file_content
              /\ save_pc' = "raised"
    /\ UNCHANGED <<save_pos, load_mode, load_pc, load_seen, load_pos,
                   load_result>>
    /\ UNCHANGED notFileVars

\* SaveToFile: yaml.dump(self._data, fp); the file object writes the next
\* n lines, and the call returns when all are written.
SaveWrite ==
    /\ save_pc = "write"
    /\ \E n \in 1..(Len(NewDocument) - save_pos) :
         /\ file_content' = Written(file_content, save_pos,
                                    SubSeq(NewDocument, save_pos + 1, save_pos + n))
         /\ save_pos' = save_pos + n
         /\ save_pc' = IF save_pos + n = Len(NewDocument) THEN "done" ELSE "write"
    /\ UNCHANGED <<load_mode, load_pc, load_seen, load_pos, load_result>>
    /\ UNCHANGED notFileVars

\* LoadFromFile: data = yaml.load_path(filename)
LoadRead ==
    /\ load_pc = "read"
    /\ load_seen' = file_content
    /\ load_pc' = "validate"
    /\ UNCHANGED <<file_content, save_pc, save_pos, load_mode, load_pos,
                   load_result>>
    /\ UNCHANGED notFileVars

\* LoadFromFile: cls._Validate(data); return cls(data, filename).  An Error
\* leaves LoadFromFile, and sends LoadOrCreate to recreate the file.
LoadValidate ==
    /\ load_pc = "validate"
    /\ IF Validate(load_seen) = "ok"
       THEN /\ load_result' = load_seen
            /\ load_pc' = "returned"
       ELSE /\ load_result' = load_result
            /\ load_pc' = IF load_mode = "LoadOrCreate"
                          THEN "create_open" ELSE "raised"
    /\ UNCHANGED <<file_content, save_pc, save_pos, load_mode, load_seen,
                   load_pos>>
    /\ UNCHANGED notFileVars

\* LoadOrCreate: kubeconfig = cls(EmptyKubeconfig(), filename);
\* kubeconfig.SaveToFile() opens the file.
LoadCreateOpen ==
    /\ load_pc = "create_open"
    /\ \E opened \in BOOLEAN :
         IF opened
         THEN /\ file_content' = Opened(file_content)
              /\ load_pc' = "create_write"
         ELSE /\ file_content' = file_content
              /\ load_pc' = "raised"
    /\ UNCHANGED <<save_pc, save_pos, load_mode, load_seen, load_pos,
                   load_result>>
    /\ UNCHANGED notFileVars

\* LoadOrCreate: kubeconfig.SaveToFile() writes; return kubeconfig.
LoadCreateWrite ==
    /\ load_pc = "create_write"
    /\ \E n \in 1..(Len(EmptyKubeconfig) - load_pos) :
         /\ file_content' = Written(file_content, load_pos,
                                    SubSeq(EmptyKubeconfig, load_pos + 1, load_pos + n))
         /\ load_pos' = load_pos + n
         /\ IF load_pos + n = Len(EmptyKubeconfig)
            THEN /\ load_pc' = "returned"
                 /\ load_result' = EmptyKubeconfig
            ELSE /\ load_pc' = "create_write"
                 /\ load_result' = load_result
    /\ UNCHANGED <<save_pc, save_pos, load_mode, load_seen>>
    /\ UNCHANGED notFileVars

NextSave ==
    \/ SaveOpen
    \/ SaveWrite
    \/ LoadRead
    \/ LoadValidate
    \/ LoadCreateOpen
    \/ LoadCreateWrite

SpecSave == InitSave /\ [][NextSave]_vars

-----------------------------------------------------------------------------
(* GetOnGCE, step by step, called by thread t. *)

\* GetOnGCE returns on_gce: the call is logged.
Returned(t, on_gce, source, mem) ==
    /\ gce_log' = Append(gce_log,
          [thread |-> t, check_age |-> gce_local[t].check_age,
           answer |-> on_gce, source |-> source, time |-> gce_local[t].time,
           read_disk |-> gce_local[t].read_disk,
           probed |-> gce_local[t].probed,
           written |-> gce_local[t].written,
           memory |-> mem])
    /\ gce_pc' = [gce_pc EXCEPT ![t] = "idle"]

\* GetOnGCE(check_age) is called.
GceCall(t) ==
    /\ gce_pc[t] = "idle"
    /\ Len(gce_log) + Cardinality(InCall) < MaxGceCalls
    /\ \E check_age \in BOOLEAN :
         gce_local' = [gce_local EXCEPT ![t] = [NoCall EXCEPT !.check_age = check_age]]
    /\ gce_pc' = [gce_pc EXCEPT ![t] = "check_memory"]
    /\ UNCHANGED <<gce_threads, gce_now, gce_ticks, gce_disk, gce_mem, gce_lock,
                   gce_log>>

\* on_gce = self._CheckMemory(check_age=check_age); return it if not None.
GceCheckMemory(t) ==
    /\ gce_pc[t] = "check_memory"
    /\ LET on_gce == CheckMemory(gce_mem[ProcessOf(t)], gce_local[t].check_age, gce_now)
       IN  IF on_gce # None
           THEN /\ gce_local' = [gce_local EXCEPT ![t].time = gce_now]
                /\ gce_log' = Append(gce_log,
                      [thread |-> t, check_age |-> gce_local[t].check_age,
                       answer |-> on_gce[1], source |-> "memory", time |-> gce_now,
                       read_disk |-> FALSE, probed |-> FALSE, written |-> NoFile,
                       memory |-> gce_mem[ProcessOf(t)]])
                /\ gce_pc' = [gce_pc EXCEPT ![t] = "idle"]
           ELSE /\ gce_local' = [gce_local EXCEPT ![t].time = gce_now]
                /\ gce_log' = gce_log
                /\ gce_pc' = [gce_pc EXCEPT ![t] = "check_disk"]
    /\ UNCHANGED <<gce_threads, gce_now, gce_ticks, gce_disk, gce_mem, gce_lock>>

\* _CheckDisk: with self.file_lock
GceLockForReading(t) ==
    /\ gce_pc[t] = "check_disk"
    /\ LockFree(gce_lock, t)
    /\ gce_lock' = [gce_lock EXCEPT ![ProcessOf(t)] = t]
    /\ gce_pc' = [gce_pc EXCEPT ![t] = "reading"]
    /\ UNCHANGED <<gce_threads, gce_now, gce_ticks, gce_disk, gce_mem,
                   gce_local, gce_log>>

\* _CheckDisk: the file is opened and read, or cannot be; the lock is
\* released.
GceReadDisk(t) ==
    /\ gce_pc[t] = "reading"
    /\ gce_local' = [gce_local EXCEPT ![t].disk_result = CheckDisk(gce_disk),
                                      ![t].seen = gce_disk.content,
                                      ![t].read_disk = TRUE]
    /\ gce_lock' = [gce_lock EXCEPT ![ProcessOf(t)] = "free"]
    /\ gce_pc' = [gce_pc EXCEPT ![t] = "write_memory"]
    /\ UNCHANGED <<gce_threads, gce_now, gce_ticks, gce_disk, gce_mem, gce_log>>

\* self._WriteMemory(*self._CheckDisk())
GceWriteMemoryFromDisk(t) ==
    /\ gce_pc[t] = "write_memory"
    /\ gce_mem' = [gce_mem EXCEPT ![ProcessOf(t)] = gce_local[t].disk_result]
    /\ gce_pc' = [gce_pc EXCEPT ![t] = "recheck_memory"]
    /\ UNCHANGED <<gce_threads, gce_now, gce_ticks, gce_disk, gce_lock,
                   gce_local, gce_log>>

\* on_gce = self._CheckMemory(check_age=check_age) after the disk was read;
\* return it if not None.
GceRecheckMemory(t) ==
    /\ gce_pc[t] = "recheck_memory"
    /\ LET on_gce == CheckMemory(gce_mem[ProcessOf(t)], gce_local[t].check_age, gce_now)
       IN  IF on_gce # None
           THEN /\ Returned(t, on_gce[1], "disk", gce_mem[ProcessOf(t)])
           ELSE /\ gce_log' = gce_log
                /\ gce_pc' = [gce_pc EXCEPT ![t] = "probe"]
    /\ UNCHANGED <<gce_threads, gce_now, gce_ticks, gce_disk, gce_mem, gce_lock,
                   gce_local>>

\* on_gce = self._CheckServer()
GceCheckServer(t) ==
    /\ gce_pc[t] = "probe"
    /\ \E on_gce \in CheckServer :
         gce_local' = [gce_local EXCEPT ![t].on_gce = Some(on_gce),
                                        ![t].probed = TRUE]
    /\ gce_pc' = [gce_pc EXCEPT ![t] = "write_disk"]
    /\ UNCHANGED <<gce_threads, gce_now, gce_ticks, gce_disk, gce_mem, gce_lock,
                   gce_log>>

\* _WriteDisk: with self.file_lock
GceLockForWriting(t) ==
    /\ gce_pc[t] = "write_disk"
    /\ LockFree(gce_lock, t)
    /\ gce_lock' = [gce_lock EXCEPT ![ProcessOf(t)] = t]
    /\ gce_pc' = [gce_pc EXCEPT ![t] = "writing"]
    /\ UNCHANGED <<gce_threads, gce_now, gce_ticks, gce_disk, gce_mem,
                   gce_local, gce_log>>

\* _WriteDisk: the file is opened and str(on_gce) written, or it cannot be
\* and the error is ignored; the lock is released.
GceWriteDisk(t) ==
    /\ gce_pc[t] = "writing"
    /\ \E written \in BOOLEAN :
         IF written
         THEN /\ gce_disk' = FileWritten(Str(gce_local[t].on_gce[1]), gce_now)
              /\ gce_local' = [gce_local EXCEPT ![t].written = gce_disk'.content]
         ELSE /\ gce_disk' = gce_disk
              /\ gce_local' = gce_local
    /\ gce_lock' = [gce_lock EXCEPT ![ProcessOf(t)] = "free"]
    /\ gce_pc' = [gce_pc EXCEPT ![t] = "write_memory_server"]
    /\ UNCHANGED <<gce_threads, gce_now, gce_ticks, gce_mem, gce_log>>

\* self._WriteMemory(on_gce, time.time() + _GCE_CACHE_MAX_AGE); return on_gce
GceWriteMemoryFromServer(t) ==
    /\ gce_pc[t] = "write_memory_server"
    /\ LET mem == [connected |-> gce_local[t].on_gce,
                   expiration_time |-> Some(gce_now + _GCE_CACHE_MAX_AGE)]
       IN  /\ gce_mem' = [gce_mem EXCEPT ![ProcessOf(t)] = mem]
           /\ Returned(t, gce_local[t].on_gce[1], "server", mem)
    /\ UNCHANGED <<gce_threads, gce_now, gce_ticks, gce_disk, gce_lock,
                   gce_local>>

\* Time passes.
GceTick ==
    /\ gce_ticks < MaxTicks
    /\ \E d \in {1, _GCE_CACHE_MAX_AGE} : gce_now' = gce_now + d
    /\ gce_ticks' = gce_ticks + 1
    /\ UNCHANGED <<gce_threads, gce_disk, gce_mem, gce_lock, gce_pc, gce_local,
                   gce_log>>

\* A CLI process that is not modelled writes the cache file or is stopped
\* while writing it, or the file is removed.
GceDiskChangedElsewhere ==
    /\ \E text \in BooleanLiterals \cup UnfinishedTexts, removed \in BOOLEAN :
         gce_disk' = IF removed THEN [content |-> NoFile, mtime |-> 0]
                     ELSE FileWritten(text, gce_now)
    /\ gce_disk' # gce_disk
    /\ UNCHANGED <<gce_threads, gce_now, gce_ticks, gce_mem, gce_lock, gce_pc,
                   gce_local, gce_log>>

GetOnGCE(t) ==
    \/ GceCall(t)
    \/ GceCheckMemory(t)
    \/ GceLockForReading(t)
    \/ GceReadDisk(t)
    \/ GceWriteMemoryFromDisk(t)
    \/ GceRecheckMemory(t)
    \/ GceCheckServer(t)
    \/ GceLockForWriting(t)
    \/ GceWriteDisk(t)
    \/ GceWriteMemoryFromServer(t)

\* The cache file the processes find when they start.
InitialDisks ==
    {[content |-> NoFile, mtime |-> 0]}
    \cup [content : BooleanLiterals, mtime : {0, StartTime}]

InitGceState(threads) ==
    /\ gce_threads = threads
    /\ gce_now = StartTime
    /\ gce_ticks = 0
    /\ gce_disk \in InitialDisks
    /\ gce_mem = [p \in Processes |-> EmptyMemory]
    /\ gce_lock = [p \in Processes |-> "free"]
    /\ gce_pc = [t \in Threads |-> "idle"]
    /\ gce_local = [t \in Threads |-> NoCall]
    /\ gce_log = << >>
    /\ IdleAdapter
    /\ IdleWait
    /\ IdleRun
    /\ IdleKube
    /\ IdleFile
    /\ IdlePure
    /\ IdleMore

\* One thread of one process calls GetOnGCE again and again while time
\* passes and other CLI processes write the cache file.
InitGce == InitGceState({"p1t1"})

NextGce ==
    \/ \E t \in gce_threads : GetOnGCE(t) /\ UNCHANGED notGceVars
    \/ GceTick /\ UNCHANGED notGceVars
    \/ GceDiskChangedElsewhere /\ UNCHANGED notGceVars

SpecGce == InitGce /\ [][NextGce]_vars

\* Two threads of one process and a thread of another call GetOnGCE at the
\* same time.
InitGceRace == InitGceState(Threads)

NextGceRace == \E t \in gce_threads : GetOnGCE(t) /\ UNCHANGED notGceVars

SpecGceRace == InitGceRace /\ [][NextGceRace]_vars

-----------------------------------------------------------------------------
(* NodeIdentityOptionsToNodeConfig: the scopes of the node config.         *)
(*                                                                         *)
(* A scope is a string; the URIs are written without their common prefix   *)
(* https://www.googleapis.com/auth/.  constants.SCOPES, the table of scope *)
(* aliases, is an input: each alias stands for one or more URIs.           *)

\* The URIs, in the order in which sorted() puts them.
ScopeURIs ==
    << "cloud-platform", "compute", "compute.readonly", "devstorage.read_only",
       "devstorage.read_write", "service.management.readonly", "servicecontrol" >>

_SERVICE_ACCOUNT_SCOPES == << "cloud-platform" >>

_OLD_REQUIRED_SCOPES == << "compute", "devstorage.read_only" >>

_ENDPOINTS_SCOPES == << "servicecontrol", "service.management.readonly" >>

ScopeAliases == {"compute-ro", "storage-rw"}

\* What an alias can stand for.
AliasExpansions ==
    { << "compute.readonly" >>,
      << "devstorage.read_write" >>,
      << "compute", "devstorage.read_only" >>,
      << "devstorage.read_only", "servicecontrol", "service.management.readonly" >> }

ScopeTables == [ScopeAliases -> AliasExpansions]

\* What the caller can write in --scopes: an alias or a URI.
ScopeNames == ScopeAliases \cup {"compute", "servicecontrol"}

\* set(seq)
ElementsOf(seq) == {seq[i] : i \in 1..Len(seq)}

\* The place of a URI in the order of sorted().
ScopeRank(uri) == CHOOSE i \in 1..Len(ScopeURIs) : ScopeURIs[i] = uri

\* sorted(a set of URIs)
RECURSIVE Sorted(_)
Sorted(uris) ==
    IF uris = {} THEN << >>
    ELSE LET first == CHOOSE u \in uris :
                         \A v \in uris : ScopeRank(u) <= ScopeRank(v)
         IN  <<first>> \o Sorted(uris \ {first})

\* ExpandScopeURIs: constants.SCOPES.get(scope, [scope]) for each scope, in
\* the order given.
RECURSIVE ExpandScopeURIs(_, _)
ExpandScopeURIs(table, scopes) ==
    IF scopes = << >> THEN << >>
    ELSE (IF Head(scopes) \in DOMAIN table
          THEN table[Head(scopes)]
          ELSE << Head(scopes) >>)
         \o ExpandScopeURIs(table, Tail(scopes))

\* A node identity that always takes the deprecated path.
UseNewScopesNever(property, o) == FALSE

\* Lines 204-205 and 209: the property switches new_scopes_behavior on.
UseNewScopes(property, o) == property \/ o.new_scopes_behavior

\* Add or remove the endpoints scopes.
WithEndpointsScopes(o, scopes) ==
    IF o.enable_cloud_endpoints
    THEN IF \E i \in 1..Len(_ENDPOINTS_SCOPES) :
                _ENDPOINTS_SCOPES[i] \notin ElementsOf(scopes)
         THEN scopes \o _ENDPOINTS_SCOPES
         ELSE scopes
    ELSE SelectSeq(scopes, LAMBDA x : x \notin ElementsOf(_ENDPOINTS_SCOPES))

\* Add compute-rw and devstorage-ro as necessary.
WithOldRequiredScopes(scopes) ==
    IF \E i \in 1..Len(_OLD_REQUIRED_SCOPES) :
           _OLD_REQUIRED_SCOPES[i] \notin ElementsOf(scopes)
    THEN scopes \o _OLD_REQUIRED_SCOPES
    ELSE scopes

\* The constructor's defaults (None counts as false; scopes None is not
\* given).
DefaultNodeIdentityOptions ==
    [ service_account        |-> FALSE,
      new_scopes_behavior    |-> FALSE,
      enable_cloud_endpoints |-> FALSE,
      scopes                 |-> [given |-> FALSE, names |-> << >>] ]

\* NodeIdentityOptionsToNodeConfig: the node_config it fills, or the
\* TypeError of iterating over scopes that are None.
NodeIdentityOptionsToNodeConfig(table, property, o) ==
    IF o.service_account
    THEN [raised |-> FALSE, serviceAccount |-> TRUE,
          oauthScopes |-> Sorted(ElementsOf(_SERVICE_ACCOUNT_SCOPES))]
    ELSE IF UseNewScopes(property, o)
    THEN IF ~o.scopes.given
         THEN [raised |-> TRUE, serviceAccount |-> FALSE, oauthScopes |-> << >>]
         ELSE [raised |-> FALSE, serviceAccount |-> FALSE,
               oauthScopes |->
                   Sorted(ElementsOf(ExpandScopeURIs(table, o.scopes.names)))]
    ELSE LET expanded == ExpandScopeURIs(table, o.scopes.names)
             scopes == WithOldRequiredScopes(WithEndpointsScopes(o, expanded))
         IN  [raised |-> FALSE, serviceAccount |-> FALSE,
              oauthScopes |-> Sorted(ElementsOf(scopes))]

InitScopes ==
    /\ scope_pc = "options"
    /\ scope_table \in ScopeTables
    /\ scope_property \in BOOLEAN
    /\ scope_options = DefaultNodeIdentityOptions
    /\ scope_result = << >>
    /\ IdleAdapter
    /\ IdleWait
    /\ IdleRun
    /\ IdleKube
    /\ IdleFile
    /\ IdleGce
    /\ IdleUser
    /\ IdleMore

\* --service-account
SetServiceAccount ==
    /\ scope_pc = "options"
    /\ ~scope_options.service_account
    /\ scope_options' = [scope_options EXCEPT !.service_account = TRUE]
    /\ UNCHANGED <<scope_pc, scope_table, scope_property, scope_result>>
    /\ UNCHANGED notScopeVars

\* The command sets new_scopes_behavior (alpha and beta tracks).
SetNewScopesBehavior ==
    /\ scope_pc = "options"
    /\ ~scope_options.new_scopes_behavior
    /\ scope_options' = [scope_options EXCEPT !.new_scopes_behavior = TRUE]
    /\ UNCHANGED <<scope_pc, scope_table, scope_property, scope_result>>
    /\ UNCHANGED notScopeVars

\* --enable-cloud-endpoints
SetEnableCloudEndpoints ==
    /\ scope_pc = "options"
    /\ ~scope_options.enable_cloud_endpoints
    /\ scope_options' = [scope_options EXCEPT !.enable_cloud_endpoints = TRUE]
    /\ UNCHANGED <<scope_pc, scope_table, scope_property, scope_result>>
    /\ UNCHANGED notScopeVars

\* --scopes with nothing in it
GiveEmptyScopes ==
    /\ scope_pc = "options"
    /\ ~scope_options.scopes.given
    /\ scope_options' = [scope_options EXCEPT !.scopes.given = TRUE]
    /\ UNCHANGED <<scope_pc, scope_table, scope_property, scope_result>>
    /\ UNCHANGED notScopeVars

\* One more name in --scopes.
AddScope ==
    /\ scope_pc = "options"
    /\ Len(scope_options.scopes.names) < MaxScopes
    /\ \E name \in ScopeNames :
         scope_options' =
             [scope_options EXCEPT
                 !.scopes = [given |-> TRUE, names |-> Append(@.names, name)]]
    /\ UNCHANGED <<scope_pc, scope_table, scope_property, scope_result>>
    /\ UNCHANGED notScopeVars

\* NodeIdentityOptionsToNodeConfig(options, node_config)
CallNodeIdentityOptionsToNodeConfig ==
    /\ scope_pc = "options"
    /\ scope_result' = NodeIdentityOptionsToNodeConfig(
                           scope_table, scope_property, scope_options)
    /\ scope_pc' = "done"
    /\ UNCHANGED <<scope_table, scope_property, scope_options>>
    /\ UNCHANGED notScopeVars

NextScopes ==
    \/ SetServiceAccount
    \/ SetNewScopesBehavior
    \/ SetEnableCloudEndpoints
    \/ GiveEmptyScopes
    \/ AddScope
    \/ CallNodeIdentityOptionsToNodeConfig

SpecScopes == InitScopes /\ [][NextScopes]_vars

-----------------------------------------------------------------------------
(* kubeconfig.User: the user entry of a kubeconfig.                        *)
(*                                                                         *)
(* Each argument is None, the empty string or a non-empty string.          *)

UserArgNames ==
    {"token", "username", "password", "auth_provider",
     "cert_path", "cert_data", "key_path", "key_data"}

\* The defaults of the signature; sdk_bin_path is config.Paths().sdk_bin_path,
\* which _AuthProvider reads.
DefaultUserArgs ==
    [ token |-> "None", username |-> "None", password |-> "None",
      auth_provider |-> "None", cert_path |-> "None", cert_data |-> "None",
      key_path |-> "None", key_data |-> "None", sdk_bin_path |-> "None" ]

\* The values a caller can give an argument.
UserArgValues(name) ==
    IF name = "auth_provider" THEN {"", "gcp"} ELSE {"", "given"}

\* The truth value Python gives None and strings.
Given(v) == v \notin {"None", ""}

\* _AuthProvider: the gcp provider needs the path of the SDK's bin
\* directory (application default credentials are not in use).
AuthProvider(a) ==
    IF a.auth_provider = "gcp" /\ IsNone(a.sdk_bin_path)
    THEN Raised("SDK_BIN_PATH_NOT_FOUND")
    ELSE NotRaised

\* Lines 191-192: the condition under which User raises its first error.
NoAuthInfo(a) ==
    /\ ~Given(a.auth_provider)
    /\ ~Given(a.token)
    /\ ~Given(a.cert_path)
    /\ ~Given(a.cert_data)
    /\ ~Given(a.username) \/ ~Given(a.password)

\* The body of the entry: the set of its <<key, value>> pairs.
UserBody(a) ==
    (IF Given(a.auth_provider) THEN {<<"auth-provider", a.auth_provider>>}
     ELSE IF Given(a.token) THEN {<<"token", a.token>>}
     ELSE {<<"username", a.username>>, <<"password", a.password>>})
    \cup
    (IF Given(a.cert_path) THEN {<<"client-certificate", a.cert_path>>}
     ELSE IF Given(a.cert_data) THEN {<<"client-certificate-data", a.cert_data>>}
     ELSE {})
    \cup
    (IF Given(a.key_path) THEN {<<"client-key", a.key_path>>}
     ELSE IF Given(a.key_data) THEN {<<"client-key-data", a.key_data>>}
     ELSE {})

\* kubeconfig.User: the error it raises, or the body of the entry it returns.
User(a) ==
    LET check == FirstRaised(<<
            IF NoAuthInfo(a)
            THEN Raised("either auth_provider, token or username & password must be provided")
            ELSE NotRaised,
            IF Given(a.auth_provider) THEN AuthProvider(a) ELSE NotRaised,
            IF Given(a.cert_path) /\ Given(a.cert_data)
            THEN Raised("cannot specify both cert_path and cert_data")
            ELSE NotRaised,
            IF Given(a.key_path) /\ Given(a.key_data)
            THEN Raised("cannot specify both key_path and key_data")
            ELSE NotRaised >>)
    IN  [raised |-> check.raised, error |-> check.error,
         user |-> IF check.raised THEN {} ELSE UserBody(a)]

InitUser ==
    /\ user_pc = "args"
    /\ user_args \in {[DefaultUserArgs EXCEPT !.sdk_bin_path = p] :
                         p \in {"None", "given"}}
    /\ user_result = << >>
    /\ IdleAdapter
    /\ IdleWait
    /\ IdleRun
    /\ IdleKube
    /\ IdleFile
    /\ IdleGce
    /\ IdleScopes
    /\ IdleMore

\* How many arguments differ from their default.
ArgsGiven(a) == Cardinality({n \in UserArgNames : a[n] # DefaultUserArgs[n]})

\* The caller passes one more keyword argument.
PassArg ==
    /\ user_pc = "args"
    /\ ArgsGiven(user_args) < MaxArgs
    /\ \E n \in UserArgNames : \E v \in UserArgValues(n) :
         /\ user_args[n] = DefaultUserArgs[n]
         /\ user_args' = [user_args EXCEPT ![n] = v]
    /\ UNCHANGED <<user_pc, user_result>>
    /\ UNCHANGED notUserVars

\* kubeconfig.User(name, ...)
CallUser ==
    /\ user_pc = "args"
    /\ user_result' = User(user_args)
    /\ user_pc' = "done"
    /\ UNCHANGED user_args
    /\ UNCHANGED notUserVars

NextUser ==
    \/ PassArg
    \/ CallUser

SpecUser == InitUser /\ [][NextUser]_vars

-----------------------------------------------------------------------------
(* UpdateLabels and RemoveLabels: read the cluster, then write its labels. *)
(*                                                                         *)
(* A label map is a function from keys to values.  The values the server   *)
(* returns are unicode strings; "non-ascii" stands for one that str()      *)
(* cannot encode.                                                          *)

\* The label keys, in sorted order.
LabelKeys == << "a", "b", "c" >>

ClusterLabelKeys == {"a", "b"}

LabelValues == {"1", "2", "non-ascii"}

LabelMaps == UNION {[keys -> LabelValues] : keys \in SUBSET ClusterLabelKeys}

\* How the server answers a Get of the cluster, and a List of the project's
\* clusters after a Get that was not found.
GetOutcomes ==
    {"ok", "http_error", "not_found_list_fails", "not_found_other_zone",
     "not_found_nowhere"}

\* TryToGetCluster: it always raises.
TryToGetCluster(server) ==
    CASE server.get = "not_found_list_fails" -> Raised("HttpException")
      [] server.get = "not_found_other_zone" -> Raised("WRONG_ZONE")
      [] OTHER -> Raised("NO_SUCH_CLUSTER")

\* GetCluster: the cluster message, or the error raised.
GetCluster(server) ==
    CASE server.get = "ok" ->
            [raised |-> FALSE, error |-> "",
             resourceLabels |-> server.resourceLabels,
             labelFingerprint |-> server.labelFingerprint]
      [] server.get = "http_error" ->
            [raised |-> TRUE, error |-> "HttpException",
             resourceLabels |-> << >>, labelFingerprint |-> ""]
      [] OTHER ->
            [raised |-> TRUE, error |-> TryToGetCluster(server).error,
             resourceLabels |-> << >>, labelFingerprint |-> ""]

\* sorted(labels.iteritems()): the <<key, value>> pairs in key order.
SortedItems(labels) ==
    LET keys == SelectSeq(LabelKeys, LAMBDA k : k \in DOMAIN labels)
    IN  [i \in 1..Len(keys) |-> << keys[i], labels[keys[i]] >>]

LabelsRaised(msg) ==
    [raised |-> TRUE, error |-> msg, labels |-> << >>, fingerprint |-> ""]

\* What the two ...LabelsCommon methods do with a GetCluster that raised:
\* HttpNotFoundError is passed over and leaves clus None, any other
\* HttpError becomes an HttpException, everything else propagates.
AfterFailedGet(fetched) ==
    CASE fetched.error = "HttpNotFoundError" ->
            LabelsRaised("AttributeError: 'NoneType' object")
      [] fetched.error = "HttpError" -> LabelsRaised("HttpException")
      [] OTHER -> LabelsRaised(fetched.error)

\* UpdateLabelsCommon
UpdateLabelsCommon(fetched, update_labels) ==
    IF fetched.raised THEN AfterFailedGet(fetched)
    ELSE [raised |-> FALSE, error |-> "",
          labels |-> SortedItems(update_labels),
          fingerprint |-> fetched.labelFingerprint]

\* str(item.value) of a unicode value: an ASCII value is itself, any other
\* one raises UnicodeEncodeError.
StrRaises(labels) == \E k \in DOMAIN labels : labels[k] = "non-ascii"

\* for k in remove_labels: clus_labels.pop(k), the first KeyError is raised.
RECURSIVE PopLabels(_, _)
PopLabels(clus_labels, remove_labels) ==
    IF remove_labels = << >>
    THEN [raised |-> FALSE, error |-> "", labels |-> clus_labels]
    ELSE IF Head(remove_labels) \notin DOMAIN clus_labels
    THEN [raised |-> TRUE, error |-> "NO_SUCH_LABEL " \o Head(remove_labels),
          labels |-> clus_labels]
    ELSE PopLabels([k \in DOMAIN clus_labels \ {Head(remove_labels)} |->
                        clus_labels[k]],
                   Tail(remove_labels))

\* RemoveLabelsCommon
RemoveLabelsCommon(fetched, remove_labels) ==
    IF fetched.raised THEN AfterFailedGet(fetched)
    ELSE IF StrRaises(fetched.resourceLabels)
    THEN LabelsRaised("UnicodeEncodeError")
    ELSE IF DOMAIN fetched.resourceLabels = {}
    THEN LabelsRaised("NO_LABELS_ON_CLUSTER")
    ELSE LET popped == PopLabels(fetched.resourceLabels, remove_labels)
         IN  IF popped.raised THEN LabelsRaised(popped.error)
             ELSE [raised |-> FALSE, error |-> "",
                   labels |-> SortedItems(popped.labels),
                   fingerprint |-> fetched.labelFingerprint]

\* The arguments of the two methods.
UpdateLabelsArgs ==
    { [method |-> "UpdateLabels", labels |-> m] :
          m \in {[k \in {} |-> "1"], [k \in {"b"} |-> "1"],
                 [k \in {"a", "c"} |-> IF k = "a" THEN "2" ELSE "1"]} }

RemoveKeyLists ==
    UNION {[1..n -> {"a", "b", "c"}] : n \in 0..MaxKeys}

RemoveLabelsArgs ==
    { [method |-> "RemoveLabels", labels |-> keys] : keys \in RemoveKeyLists }

InitLabels ==
    /\ lbl_pc = "fetch"
    /\ lbl_server \in [get : GetOutcomes, resourceLabels : LabelMaps,
                       labelFingerprint : {"f1"}]
    /\ lbl_changes = 0
    /\ lbl_args \in UpdateLabelsArgs \cup RemoveLabelsArgs
    /\ lbl_fetched = << >>
    /\ lbl_sent = << >>
    /\ lbl_result = << >>
    /\ IdleAdapter
    /\ IdleWait
    /\ IdleRun
    /\ IdleKube
    /\ IdleFile
    /\ IdleGce
    /\ IdlePure
    /\ IdleOp

\* clus = self.GetCluster(cluster_ref)
LabelsGetCluster ==
    /\ lbl_pc = "fetch"
    /\ lbl_fetched' = GetCluster(lbl_server)
    /\ lbl_pc' = "write"
    /\ UNCHANGED <<lbl_server, lbl_changes, lbl_args, lbl_sent, lbl_result>>
    /\ UNCHANGED notLabelVars

\* Another client writes the cluster's labels: the fingerprint changes.
LabelsChangedElsewhere ==
    /\ lbl_pc \in {"fetch", "write"}
    /\ lbl_server.get = "ok"
    /\ lbl_changes < MaxLabelChanges
    /\ \E m \in LabelMaps :
         /\ m # lbl_server.resourceLabels
         /\ lbl_server' = [lbl_server EXCEPT !.resourceLabels = m,
                                             !.labelFingerprint = "f2"]
    /\ lbl_changes' = lbl_changes + 1
    /\ UNCHANGED <<lbl_pc, lbl_args, lbl_fetched, lbl_sent, lbl_result>>
    /\ UNCHANGED notLabelVars

\* The rest of UpdateLabels / RemoveLabels: the label list is built from
\* what was fetched, and the SetLabelsRequest is sent.
LabelsWrite ==
    /\ lbl_pc = "write"
    /\ LET common == IF lbl_args.method = "UpdateLabels"
                     THEN UpdateLabelsCommon(lbl_fetched, lbl_args.labels)
                     ELSE RemoveLabelsCommon(lbl_fetched, lbl_args.labels)
       IN  /\ lbl_result' = [raised |-> common.raised, error |-> common.error]
           /\ lbl_sent' = IF common.raised THEN lbl_sent
                          ELSE Append(lbl_sent,
                                      [resourceLabels |-> common.labels,
                                       labelFingerprint |-> common.fingerprint])
    /\ lbl_pc' = "done"
    /\ UNCHANGED <<lbl_server, lbl_changes, lbl_args, lbl_fetched>>
    /\ UNCHANGED notLabelVars

NextLabels ==
    \/ LabelsGetCluster
    \/ LabelsChangedElsewhere
    \/ LabelsWrite

SpecLabels == InitLabels /\ [][NextLabels]_vars

-----------------------------------------------------------------------------
(* jobs_util.Update: the label update of an ML-engine job.                 *)

LabelFlags == {"update_labels", "clear_labels", "remove_labels"}

\* What jobs_client.Patch does: it returns an operation, raises
\* NoFieldsSpecifiedError or raises another error; and what
\* WaitForOperation does with the operation.
PatchOutcomes == {"no_fields", "http_error", "ok_wait_ok", "ok_wait_fails"}

\* A handler that re-raises when a label flag was given.
ReraiseNoFieldsIfSpecified(specified) == specified # {}

\* if not any(args.IsSpecified(arg) for arg in (...)): raise
ReraiseNoFields(specified) == ~(\E arg \in LabelFlags : arg \in specified)

NoJobResult == [raised |-> FALSE, error |-> "", value |-> "unset",
                printed |-> << >>]

InitJobUpdate ==
    /\ op_pc = "parse"
    /\ op_input \in [specified : SUBSET LabelFlags, patch : PatchOutcomes]
    /\ op_result = NoJobResult
    /\ IdleAdapter
    /\ IdleWait
    /\ IdleRun
    /\ IdleKube
    /\ IdleFile
    /\ IdleGce
    /\ IdlePure
    /\ IdleLabels

\* labels_update = ParseUpdateLabels(jobs_client, job_ref, args)
JobParseUpdateLabels ==
    /\ op_pc = "parse"
    /\ op_pc' = "patch"
    /\ UNCHANGED <<op_input, op_result>>
    /\ UNCHANGED notOpVars

\* op = jobs_client.Patch(job_ref, labels_update), and the except clause.
JobPatch ==
    /\ op_pc = "patch"
    /\ CASE op_input.patch = "no_fields" ->
              /\ op_pc' = "done"
              /\ op_result' =
                    IF ReraiseNoFields(op_input.specified)
                    THEN [NoJobResult EXCEPT !.raised = TRUE,
                                             !.error = "NoFieldsSpecifiedError"]
                    ELSE [NoJobResult EXCEPT !.value = "None",
                             !.printed = << "No update to perform." >>]
         [] op_input.patch = "http_error" ->
              /\ op_pc' = "done"
              /\ op_result' = [NoJobResult EXCEPT !.raised = TRUE,
                                                  !.error = "HttpError"]
         [] OTHER ->
              /\ op_pc' = "wait"
              /\ op_result' = op_result
    /\ UNCHANGED op_input
    /\ UNCHANGED notOpVars

\* return operations_client.WaitForOperation(op, ...).response
JobWaitForOperation ==
    /\ op_pc = "wait"
    /\ op_pc' = "done"
    /\ op_result' = IF op_input.patch = "ok_wait_ok"
                    THEN [NoJobResult EXCEPT !.value = "response"]
                    ELSE [NoJobResult EXCEPT !.raised = TRUE,
                                             !.error = "OperationError"]
    /\ UNCHANGED op_input
    /\ UNCHANGED notOpVars

NextJobUpdate ==
    \/ JobParseUpdateLabels
    \/ JobPatch
    \/ JobWaitForOperation

SpecJobUpdate == InitJobUpdate /\ [][NextJobUpdate]_vars

-----------------------------------------------------------------------------
(* upgrade.VersionVerifier: how far a cluster is behind its main.          *)

MaxMajor == 2
MaxMinor == 4
MaxPatch == 1

\* The semantic versions that are compared: major.minor.patch and an
\* optional prerelease part such as 1.9.7-gke.1.
Prereleases == {"", "gke.1"}

SemVer == [major : 1..MaxMajor, minor : 0..MaxMinor, patch : 0..MaxPatch,
           prerelease : Prereleases]

\* SemVer.Distance: the distances between the major, minor and patch parts
\* of this version and the other one.
Distance(self, other) ==
    <<self.major - other.major, self.minor - other.minor,
      self.patch - other.patch>>

UP_TO_DATE == 0
UPGRADE_AVAILABLE == 1
SUPPORT_ENDING == 2
UNSUPPORTED == 3

\* A Compare whose support ends one minor version earlier.
CompareOneMinorEarlier(current_main_version, current_cluster_version) ==
    IF current_main_version = current_cluster_version THEN UP_TO_DATE
    ELSE LET d == Distance(current_main_version, current_cluster_version)
         IN  IF d[1] # 0 \/ d[2] > 1 THEN UNSUPPORTED
             ELSE IF d[2] > 0 THEN SUPPORT_ENDING
             ELSE UPGRADE_AVAILABLE

Compare(current_main_version, current_cluster_version) ==
    IF current_main_version = current_cluster_version THEN UP_TO_DATE
    ELSE LET d == Distance(current_main_version, current_cluster_version)
             major == d[1]
             minor == d[2]
         IN  IF major # 0 \/ minor > 2 THEN UNSUPPORTED
             ELSE IF minor > 1 THEN SUPPORT_ENDING
             ELSE UPGRADE_AVAILABLE

NotCompared == [returned |-> FALSE, value |-> -1]

InitCompare ==
    /\ op_pc = "call"
    /\ op_input \in [main : SemVer, cluster : SemVer]
    /\ op_result = NotCompared
    /\ IdleAdapter
    /\ IdleWait
    /\ IdleRun
    /\ IdleKube
    /\ IdleFile
    /\ IdleGce
    /\ IdlePure
    /\ IdleLabels

CallCompare ==
    /\ op_pc = "call"
    /\ op_pc' = "done"
    /\ op_result' = [returned |-> TRUE,
                     value |-> Compare(op_input.main, op_input.cluster)]
    /\ UNCHANGED op_input
    /\ UNCHANGED notOpVars

NextCompare == CallCompare

SpecCompare == InitCompare /\ [][NextCompare]_vars

-----------------------------------------------------------------------------
(* sql/instances.py: the settings and the instance built from the          *)
(* arguments of `sql instances create` and `sql instances patch`.          *)

ReleaseTracks == {"GA", "BETA"}

\* The original instance handed to the builders: absent, or one whose
\* settings.storageAutoResize is True, False or unset.
NoInstance == [exists |-> FALSE, storageAutoResize |-> "None"]

Instances ==
    {NoInstance} \cup [exists : {TRUE}, storageAutoResize : {"True", "False", "None"}]

\* The arguments the builders read. A limit of "unspecified" is a flag that
\* was not given; "None" is a limit given as unlimited.
SqlArgs ==
    [replication : {"None", "SYNCHRONOUS", "ASYNCHRONOUS"},
     main_instance_name : {"None", "main"},
     replica_type : {"None", "FAILOVER"},
     storage_auto_increase : {"None", "True", "False"},
     storage_auto_increase_limit : {"unspecified", "None", "100"},
     availability_type : {"unspecified", "REGIONAL"},
     database_version : {"MYSQL_5_7", "POSTGRES_9_6"},
     on_premises_host_port : {"None", "host:3306"},
     require_ssl : {"None", "True"}]

\* The BETA-only flags exist on the BETA commands only.
BetaOnlyArgsUnspecified(args) ==
    /\ args.storage_auto_increase_limit = "unspecified"
    /\ args.availability_type = "unspecified"

NoSettings ==
    [replicationType |-> "None", storageAutoResize |-> "None",
     storageAutoResizeLimit |-> "None", availabilityType |-> "None",
     onPremisesConfiguration |-> "None"]

SqlRaised(exception) == [raised |-> TRUE, error |-> exception, settings |-> NoSettings]

SqlBuilt(settings) == [raised |-> FALSE, error |-> "", settings |-> settings]

\* A limit that needs auto-increase to be on once this call is done.
LimitSettableInResult(args, instance) ==
    \/ args.storage_auto_increase = "True"
    \/ /\ instance.exists
       /\ instance.storageAutoResize = "True"
       /\ args.storage_auto_increase # "False"

\* (instance and instance.settings.storageAutoResize) or
\* args.storage_auto_increase
LimitSettable(args, instance) ==
    \/ instance.exists /\ Truthy(instance.storageAutoResize)
    \/ Truthy(args.storage_auto_increase)

_ConstructBaseSettingsFromArgs(args, instance, release_track) ==
    LET settings ==
            [NoSettings EXCEPT !.replicationType = args.replication,
                               !.storageAutoResize = args.storage_auto_increase]
        limited ==
            [settings EXCEPT !.storageAutoResizeLimit =
                IF args.storage_auto_increase_limit = "None" THEN "0"
                ELSE args.storage_auto_increase_limit]
        withLimit ==
            IF args.storage_auto_increase_limit = "unspecified" THEN settings
            ELSE limited
        withAvailability ==
            IF args.availability_type = "unspecified" THEN withLimit
            ELSE [withLimit EXCEPT !.availabilityType = args.availability_type]
    IN  IF release_track # "BETA" THEN SqlBuilt(settings)
        ELSE IF /\ args.storage_auto_increase_limit # "unspecified"
                /\ ~LimitSettable(args, instance)
             THEN SqlRaised("RequiredArgumentException --storage-auto-increase")
        ELSE SqlBuilt(withAvailability)

IsPostgresDatabaseVersion(database_version) == database_version = "POSTGRES_9_6"

_ConstructCreateSettingsFromArgs(args, instance, release_track) ==
    LET base == _ConstructBaseSettingsFromArgs(args, instance, release_track)
    IN  IF base.raised THEN base
        ELSE IF args.on_premises_host_port # "None" /\ Truthy(args.require_ssl)
             THEN SqlRaised("ToolException --on-premises-host-port")
        ELSE IF /\ release_track = "BETA"
                /\ args.availability_type # "unspecified"
                /\ ~IsPostgresDatabaseVersion(args.database_version)
             THEN SqlRaised("InvalidArgumentException --availability-type")
        ELSE SqlBuilt([base.settings EXCEPT !.onPremisesConfiguration =
                          args.on_premises_host_port])

_ConstructPatchSettingsFromArgs(args, instance, release_track) ==
    _ConstructBaseSettingsFromArgs(args, instance, release_track)

NoSqlInstance ==
    [raised |-> FALSE, error |-> "", built |-> FALSE, settings |-> NoSettings,
     mainInstanceName |-> "None", failoverTarget |-> FALSE]

SqlInstanceOf(result, name, failover) ==
    [raised |-> result.raised, error |-> result.error, built |-> ~result.raised,
     settings |-> result.settings,
     mainInstanceName |-> IF result.raised THEN "None" ELSE name,
     failoverTarget |-> ~result.raised /\ failover]

\* A replication type that is always the inferred one.
ReplicationTypeInferredOnly(args, settings) ==
    IF args.main_instance_name # "None" THEN "ASYNCHRONOUS" ELSE "SYNCHRONOUS"

\* The replicationType ConstructCreateInstanceFromArgs leaves in the settings.
ReplicationType(args, settings) ==
    LET replication == IF args.main_instance_name # "None"
                       THEN "ASYNCHRONOUS" ELSE "SYNCHRONOUS"
    IN  IF args.replication = "None" THEN replication
        ELSE settings.replicationType

ConstructCreateInstanceFromArgs(args, original, release_track) ==
    LET built == _ConstructCreateSettingsFromArgs(args, original, release_track)
        final == IF built.raised THEN built
                 ELSE SqlBuilt([built.settings EXCEPT !.replicationType =
                                   ReplicationType(args, built.settings)])
    IN  SqlInstanceOf(final, args.main_instance_name,
                      /\ args.main_instance_name # "None"
                      /\ args.replica_type = "FAILOVER")

ConstructPatchInstanceFromArgs(args, original, release_track) ==
    SqlInstanceOf(_ConstructPatchSettingsFromArgs(args, original, release_track),
                  "None", FALSE)

SqlMethods == {"base", "create", "patch"}

SqlInputs ==
    {in \in [method : SqlMethods, release_track : ReleaseTracks,
             instance : Instances, args : SqlArgs] :
        /\ in.release_track = "GA" => BetaOnlyArgsUnspecified(in.args)
        /\ in.method = "patch" => in.instance.exists}

InitSql ==
    /\ op_pc = "call"
    /\ op_input \in SqlInputs
    /\ op_result = NoSqlInstance
    /\ IdleAdapter
    /\ IdleWait
    /\ IdleRun
    /\ IdleKube
    /\ IdleFile
    /\ IdleGce
    /\ IdlePure
    /\ IdleLabels

SqlReturn(result) ==
    /\ op_pc' = "done"
    /\ op_result' = result
    /\ UNCHANGED op_input
    /\ UNCHANGED notOpVars

CallConstructBaseSettings ==
    /\ op_pc = "call"
    /\ op_input.method = "base"
    /\ SqlReturn(SqlInstanceOf(
           _ConstructBaseSettingsFromArgs(op_input.args, op_input.instance,
                                          op_input.release_track),
           "None", FALSE))

CallConstructCreateInstance ==
    /\ op_pc = "call"
    /\ op_input.method = "create"
    /\ SqlReturn(ConstructCreateInstanceFromArgs(
           op_input.args, op_input.instance, op_input.release_track))

CallConstructPatchInstance ==
    /\ op_pc = "call"
    /\ op_input.method = "patch"
    /\ SqlReturn(ConstructPatchInstanceFromArgs(
           op_input.args, op_input.instance, op_input.release_track))

NextSql ==
    \/ CallConstructBaseSettings
    \/ CallConstructCreateInstance
    \/ CallConstructPatchInstance

SpecSql == InitSql /\ [][NextSql]_vars

-----------------------------------------------------------------------------
(* yaml_command_schema.Argument.FromData: an argument declaration of a     *)
(* YAML command. "absent" is a key the declaration does not have.          *)

DefaultValues == {"absent", "0", "False", "''", "5", "'text'"}

ArgumentData ==
    [group : {"absent", "params"},
     api_field : {"absent", "field"},
     arg_name : {"absent", "''", "name"},
     is_positional : {"absent", "True"},
     default : DefaultValues,
     fallback : {"absent", "module:func"},
     help_text : {"absent", "help"}]

\* The values Python takes for false in a condition.
FalsyValues == {"absent", "None", "0", "False", "''"}

Bool(value) == value \notin FalsyValues

\* data.get(key)
DataGet(data, key) == IF data[key] = "absent" THEN "None" ELSE data[key]

NoArgument ==
    [raised |-> FALSE, error |-> "", made |-> "nothing", arg_name |-> "None",
     flag_name |-> "None", default |-> "None", fallback |-> "None"]

InvalidSchemaError(message) ==
    [NoArgument EXCEPT !.raised = TRUE,
                       !.error = "InvalidSchemaError: " \o message]

FromData(data) ==
    LET arg_name == IF data.arg_name = "absent" THEN DataGet(data, "api_field")
                    ELSE data.arg_name
    IN  IF Bool(DataGet(data, "group"))
        THEN [NoArgument EXCEPT !.made = "ArgumentGroup"]
        ELSE IF ~Bool(arg_name)
        THEN InvalidSchemaError(
                 "An argument must have at least one of [api_field, arg_name].")
        ELSE IF Bool(DataGet(data, "default")) /\ Bool(DataGet(data, "fallback"))
        THEN InvalidSchemaError(
                 "An argument may have at most one of [default, fallback].")
        ELSE IF data.help_text = "absent"
        THEN InvalidSchemaError("An argument must have help_text.")
        ELSE [NoArgument EXCEPT
                 !.made = "Argument",
                 !.arg_name = arg_name,
                 !.flag_name = IF Bool(DataGet(data, "is_positional"))
                               THEN arg_name ELSE "--" \o arg_name,
                 !.default = DataGet(data, "default"),
                 !.fallback = DataGet(data, "fallback")]

InitFromData ==
    /\ op_pc = "call"
    /\ op_input \in ArgumentData
    /\ op_result = NoArgument
    /\ IdleAdapter
    /\ IdleWait
    /\ IdleRun
    /\ IdleKube
    /\ IdleFile
    /\ IdleGce
    /\ IdlePure
    /\ IdleLabels

CallFromData ==
    /\ op_pc = "call"
    /\ op_pc' = "done"
    /\ op_result' = FromData(op_input)
    /\ UNCHANGED op_input
    /\ UNCHANGED notOpVars

NextFromData == CallFromData

SpecFromData == InitFromData /\ [][NextFromData]_vars

-----------------------------------------------------------------------------
(* APIAdapter.UpdateNodePoolAutoscaling: the autoscaling of a node pool    *)
(* after an update.                                                        *)

OptionalBooleans == {"None", "True", "False"}

\* message NodePoolAutoscaling; every field of a fresh message is None.
NodePoolAutoscaling ==
    [enabled |-> "None", minNodeCount |-> "None", maxNodeCount |-> "None",
     autoprovisioned |-> "None"]

\* pool.autoscaling of the pool the server returns: None, or a message.
PoolAutoscalings ==
    [present : {FALSE}, message : {NodePoolAutoscaling}] \cup
    [present : {TRUE},
     message : [enabled : OptionalBooleans, minNodeCount : {"None", "0", "3"},
                maxNodeCount : {"None", "5"}, autoprovisioned : OptionalBooleans]]

\* The fields of UpdateNodePoolOptions that the merge reads.
AutoscalingOptions ==
    [enable_autoscaling : OptionalBooleans, max_nodes : {"None", "7"},
     min_nodes : {"None", "0", "2"}, enable_autoprovisioning : OptionalBooleans]

GetNodePoolOutcomes == {"ok", "http_error"}

NoAutoscalingResult ==
    [raised |-> FALSE, error |-> "", autoscaling |-> NodePoolAutoscaling]

UpdateNodePoolAutoscaling(get, pool_autoscaling, pool_options) ==
    LET autoscaling == IF pool_autoscaling.present THEN pool_autoscaling.message
                       ELSE NodePoolAutoscaling
        enabled == IF pool_options.enable_autoscaling # "None"
                   THEN pool_options.enable_autoscaling ELSE autoscaling.enabled
        maxNodeCount == IF pool_options.max_nodes # "None"
                        THEN pool_options.max_nodes ELSE autoscaling.maxNodeCount
        minNodeCount == IF pool_options.min_nodes # "None" THEN pool_options.min_nodes
                        ELSE IF pool_options.enable_autoprovisioning # "None" THEN "0"
                        ELSE autoscaling.minNodeCount
        autoprovisioned ==
            IF pool_options.enable_autoprovisioning # "None"
            THEN pool_options.enable_autoprovisioning
            ELSE IF ~Truthy(enabled) THEN "False"
            ELSE autoscaling.autoprovisioned
    IN  IF get = "http_error"
        THEN [NoAutoscalingResult EXCEPT !.raised = TRUE, !.error = "HttpError"]
        ELSE [NoAutoscalingResult EXCEPT !.autoscaling =
                 [enabled |-> enabled, minNodeCount |-> minNodeCount,
                  maxNodeCount |-> maxNodeCount,
                  autoprovisioned |-> autoprovisioned]]

InitAutoscaling ==
    /\ op_pc = "call"
    /\ op_input \in [get : GetNodePoolOutcomes, pool : PoolAutoscalings,
                     options : AutoscalingOptions]
    /\ op_result = NoAutoscalingResult
    /\ IdleAdapter
    /\ IdleWait
    /\ IdleRun
    /\ IdleKube
    /\ IdleFile
    /\ IdleGce
    /\ IdlePure
    /\ IdleLabels

CallUpdateNodePoolAutoscaling ==
    /\ op_pc = "call"
    /\ op_pc' = "done"
    /\ op_result' = UpdateNodePoolAutoscaling(op_input.get, op_input.pool,
                                              op_input.options)
    /\ UNCHANGED op_input
    /\ UNCHANGED notOpVars

NextAutoscaling == CallUpdateNodePoolAutoscaling

SpecAutoscaling == InitAutoscaling /\ [][NextAutoscaling]_vars

-----------------------------------------------------------------------------
(* Claims about the adapter call (checked under SpecAdapter). *)

\* The cluster of the create request that was sent.
SentNodePools == sent[1].body.nodePools

CreateSent ==
    /\ adapter_pc = "done"
    /\ call = "CreateCluster"
    /\ ~outcome.raised
    /\ Len(sent) = 1

RECURSIVE SumOfCounts(_)
SumOfCounts(pools) ==
    IF pools = << >> THEN 0
    ELSE Head(pools).initialNodeCount + SumOfCounts(Tail(pools))

\* C1: for every num_nodes >= 1 and max_nodes_per_pool >= 1 the generated
\* pools' initialNodeCount values sum to num_nodes, there are
\* ceil(num_nodes / max_nodes_per_pool) of them, and they are named
\* default-pool when there is one and default-pool-0, default-pool-1, ... in
\* order when there are several.
C1_PoolsPartitionNodes ==
    (CreateSent /\ options.num_nodes >= 1 /\ options.max_nodes_per_pool >= 1) =>
        LET n == options.num_nodes
            m == options.max_nodes_per_pool
            k == Len(SentNodePools)
        IN  /\ SumOfCounts(SentNodePools) = n
            /\ (k - 1) * m < n
            /\ n <= k * m
            /\ k = 1 => SentNodePools[1].name = "default-pool"
            /\ k > 1 => \A i \in 1..k :
                   SentNodePools[i].name = "default-pool-" \o ToString(i - 1)

\* C1's case: several pools, the last of them smaller than the others.
C1_Witness ==
    /\ CreateSent
    /\ options.max_nodes_per_pool >= 2
    /\ Len(SentNodePools) >= 3
    /\ SentNodePools[Len(SentNodePools)].initialNodeCount
         < SentNodePools[1].initialNodeCount

ExampleSent ==
    /\ CreateSent
    /\ options.num_nodes = 2500
    /\ options.max_nodes_per_pool = MAX_NODES_PER_POOL

PoolNamesOf(pools) == [i \in 1..Len(pools) |-> pools[i].name]

PoolCountsOf(pools) == [i \in 1..Len(pools) |-> pools[i].initialNodeCount]

\* C2 as stated: num_nodes=2500 and max_nodes_per_pool=1000 give three pools
\* default-pool-0, default-pool-1, default-pool-2 with 834, 833, 833 nodes.
C2_AsStated ==
    ExampleSent =>
        /\ PoolNamesOf(SentNodePools)
             = <<"default-pool-0", "default-pool-1", "default-pool-2">>
        /\ PoolCountsOf(SentNodePools) = <<834, 833, 833>>

\* C2 amended: num_nodes=2500 and max_nodes_per_pool=1000 give three pools
\* default-pool-0, default-pool-1, default-pool-2 with 834, 834, 832 nodes
\* (every pool but the last gets ceil(2500 / 3), the last gets the rest).
C2_ExamplePools ==
    ExampleSent =>
        /\ PoolNamesOf(SentNodePools)
             = <<"default-pool-0", "default-pool-1", "default-pool-2">>
        /\ PoolCountsOf(SentNodePools) = <<834, 834, 832>>

C2_Witness == ExampleSent /\ Len(SentNodePools) = 3

\* Options that the validation of the claim's examples rejects: authorized
\* networks without the enable flag, create_subnetwork together with
\* subnetwork, enable_tpu without enable_ip_alias.
ExampleRejected ==
    \/ /\ Truthy(options.main_authorized_networks)
       /\ ~Truthy(options.enable_main_authorized_networks)
    \/ /\ call = "CreateCluster"
       /\ ~IsNone(options.create_subnetwork)
       /\ Truthy(options.subnetwork)
    \/ /\ call = "CreateCluster"
       /\ Truthy(options.enable_tpu)
       /\ ~Truthy(options.enable_ip_alias)

\* C8: options rejected by validation make CreateCluster / UpdateCluster
\* raise before any request is sent to the remote API, and the rejected call
\* is not retried; a call that is not rejected sends exactly one request.
C8_ValidationBeforeRequest ==
    adapter_pc = "done" =>
        /\ outcome.raised => sent = << >>
        /\ ExampleRejected => outcome.raised
        /\ ~outcome.raised => Len(sent) = 1

\* C8's case: enable_tpu with enable_kubernetes_alpha but without
\* enable_ip_alias was rejected by CreateCluster.
C8_Witness ==
    /\ adapter_pc = "done"
    /\ call = "CreateCluster"
    /\ options.enable_tpu = "True"
    /\ options.enable_kubernetes_alpha = "True"
    /\ ~Truthy(options.enable_ip_alias)
    /\ outcome.raised
    /\ outcome.error = "Cannot specify --enable-tpu without --enable-ip-alias"
    /\ sent = << >>

-----------------------------------------------------------------------------
(* Claims about UpdateClusterCommon (checked under SpecAdapter). *)

\* The update kinds in their priority order.
KindOrder ==
    <<"update_nodes", "update_main", "monitoring_service", "disable_addons",
      "enable_autoscaling", "locations", "enable_main_authorized_networks",
      "enable_autoprovisioning", "enable_pod_security_policy", "enable_binauthz">>

\* Whether the options populate a kind: a true flag, a non-empty value, or
\* an enable_... flag that is not None.
Populated(o, kind) ==
    IF kind \in {"update_nodes", "update_main"} THEN o[kind] = "True"
    ELSE IF kind \in {"monitoring_service", "disable_addons", "locations"}
    THEN o[kind] = "set"
    ELSE o[kind] \in {"True", "False"}

SomePopulated(o) == \E i \in 1..Len(KindOrder) : Populated(o, KindOrder[i])

FirstPopulated(o) ==
    KindOrder[CHOOSE i \in 1..Len(KindOrder) :
                 /\ Populated(o, KindOrder[i])
                 /\ \A j \in 1..(i - 1) : ~Populated(o, KindOrder[j])]

\* The ClusterUpdate fields that belong to each kind.
FieldsOfKind ==
    [update_nodes |-> {"desiredNodeVersion", "desiredNodePoolId", "desiredImageType"},
     update_main |-> {"desiredMainVersion"},
     monitoring_service |-> {"desiredMonitoringService"},
     disable_addons |-> {"desiredAddonsConfig"},
     enable_autoscaling |-> {"desiredNodePoolId", "desiredNodePoolAutoscaling"},
     locations |-> {"desiredLocations"},
     enable_main_authorized_networks |-> {"desiredMainAuthorizedNetworksConfig"},
     enable_autoprovisioning |-> {"desiredClusterAutoscaling"},
     enable_pod_security_policy |-> {"desiredPodSecurityPolicyConfig"},
     enable_binauthz |-> {"desiredBinaryAuthorization"}]

UpdateCalled == adapter_pc = "done" /\ call = "UpdateCluster"

\* One update was built and sent, that of the first populated kind.
FirstKindSent ==
    /\ ~outcome.raised
    /\ Len(sent) = 1
    /\ sent[1].body.update = FirstPopulated(options)
    /\ sent[1].body.fields = FieldsOfKind[FirstPopulated(options)]

\* The errors of the autoprovisioning branch.
AutoprovisioningErrors ==
    {"NO_AUTOPROVISIONING", "NO_AUTOPROVISIONING_LIMITS",
     "MISMATCH_ACCELERATOR_TYPE_LIMITS"}

\* C14 as stated: whenever some update kind is populated, exactly one update
\* is returned, carrying only the fields of the first populated kind.
C14_AsStated ==
    (UpdateCalled /\ SomePopulated(options)) => FirstKindSent

\* C14, amended: whenever some update kind is populated, UpdateClusterCommon
\* either raises (the authorized-networks mismatch, or an autoprovisioning
\* error when the first populated kind is enable_autoprovisioning) and no
\* update is built, or returns exactly one update carrying only the fields
\* of the first populated kind; lower-priority kinds are left out.
C14_FirstPopulatedKindOrError ==
    (UpdateCalled /\ SomePopulated(options)) =>
        \/ FirstKindSent
        \/ /\ outcome.raised
           /\ sent = << >>
           /\ \/ /\ outcome.error = "MISMATCH_AUTHORIZED_NETWORKS"
                 /\ options.main_authorized_networks = "set"
                 /\ options.enable_main_authorized_networks # "True"
              \/ /\ outcome.error \in AutoprovisioningErrors
                 /\ FirstPopulated(options) = "enable_autoprovisioning"

\* C14's case: update_main, locations and enable_binauthz are all populated
\* and the one update sent is the main version update.
C14_Witness ==
    /\ UpdateCalled
    /\ options.update_main = "True"
    /\ options.locations = "set"
    /\ options.enable_binauthz = "True"
    /\ ~outcome.raised
    /\ sent[1].body.update = "update_main"
    /\ sent[1].body.fields = {"desiredMainVersion"}

-----------------------------------------------------------------------------
(* Claims about the authorized-networks check (checked under SpecAdapter). *)

AdapterCalled == adapter_pc = "done"

CreateCalled == adapter_pc = "done" /\ call = "CreateCluster"

\* main_authorized_networks is given and enable_main_authorized_networks is
\* unset or false.
NetworksWithoutEnable(o) ==
    /\ o.main_authorized_networks = "set"
    /\ o.enable_main_authorized_networks \in {"None", "False"}

\* The errors of the checks CreateClusterCommon makes before it looks at the
\* authorized networks.
ErrorsBeforeAuthorizedNetworks ==
    {"cannot specify node source image in container v1 api",
     "NODE_TAINT_INCORRECT_FORMAT", "NODE_TAINT_INCORRECT_EFFECT",
     "UNKNOWN_WORKLOAD_METADATA_FROM_NODE"}

\* An earlier check of CreateClusterCommon raises.
RaisesBeforeAuthorizedNetworks(o) ==
    \/ o.node_source_image = "set"
    \/ o.node_taints \in {"badformat", "badeffect"}
    \/ o.workload_metadata_from_node = "unknown"

\* The autoprovisioning branch of UpdateClusterCommon is the one selected and
\* it raises.
AutoprovisioningBranchRaises(api, o) ==
    /\ SomePopulated(o)
    /\ FirstPopulated(o) = "enable_autoprovisioning"
    /\ \/ api # "v1alpha1"
       \/ AlphaCreateClusterAutoscalingCommon(o).raised

\* C15 as stated: main_authorized_networks without the enable flag fails
\* with the mismatch error in CreateClusterCommon and in UpdateClusterCommon,
\* whichever update kind was selected.
C15_AsStated ==
    (AdapterCalled /\ NetworksWithoutEnable(options)) =>
        /\ outcome.raised
        /\ outcome.error = "MISMATCH_AUTHORIZED_NETWORKS"

\* C15, amended: main_authorized_networks without the enable flag makes both
\* calls fail and nothing is sent; the error is the mismatch error unless an
\* earlier check of the call raises first: the node-source-image, node-taint
\* or workload-metadata check in CreateClusterCommon, the selected
\* autoprovisioning branch in UpdateClusterCommon.  For every other update
\* kind selected, and when none is, the error is the mismatch error.
C15_MismatchUnlessEarlierError ==
    (AdapterCalled /\ NetworksWithoutEnable(options)) =>
        /\ outcome.raised
        /\ sent = << >>
        /\ call = "CreateCluster" =>
              IF RaisesBeforeAuthorizedNetworks(options)
              THEN outcome.error \in ErrorsBeforeAuthorizedNetworks
              ELSE outcome.error = "MISMATCH_AUTHORIZED_NETWORKS"
        /\ call = "UpdateCluster" =>
              IF AutoprovisioningBranchRaises(api_version, options)
              THEN outcome.error \in AutoprovisioningErrors
              ELSE outcome.error = "MISMATCH_AUTHORIZED_NETWORKS"

\* C15's case: a create call with authorized networks and the enable flag
\* false, and nothing else wrong, fails with the mismatch error.
C15_Witness ==
    /\ CreateCalled
    /\ options.main_authorized_networks = "set"
    /\ options.enable_main_authorized_networks = "False"
    /\ ~RaisesBeforeAuthorizedNetworks(options)
    /\ outcome.raised
    /\ outcome.error = "MISMATCH_AUTHORIZED_NETWORKS"
    /\ sent = << >>

-----------------------------------------------------------------------------
(* Claims about ParseIPAliasOptions and ParseTpuOptions (checked under     *)
(* SpecAdapter, on the options of a create call).                          *)

\* PREREQUISITE_OPTION_ERROR_MSG.format(prerequisite=..., opt=...)
PREREQUISITE_OPTION_ERROR_MSG(opt, prerequisite) ==
    "Cannot specify --" \o opt \o " without --" \o prerequisite

\* ip_alias_only_options: the flag name and the option of each.
ip_alias_only_options ==
    << [name |-> "services-ipv4-cidr", option |-> "services_ipv4_cidr"],
       [name |-> "create-subnetwork", option |-> "create_subnetwork"],
       [name |-> "cluster-secondary-range-name",
        option |-> "cluster_secondary_range_name"],
       [name |-> "services-secondary-range-name",
        option |-> "services_secondary_range_name"] >>

\* The error is the prerequisite error for enable-ip-alias and names one of
\* the options that were given.
NamesAGivenOption(o, error) ==
    \E i \in 1..Len(ip_alias_only_options) :
        /\ ~IsNone(o[ip_alias_only_options[i].option])
        /\ error = PREREQUISITE_OPTION_ERROR_MSG(ip_alias_only_options[i].name,
                                                 "enable-ip-alias")

SomeIpAliasOnlyOptionGiven(o) ==
    \E i \in 1..Len(ip_alias_only_options) :
        ~IsNone(o[ip_alias_only_options[i].option])

\* C16 as stated: when enable_ip_alias is false, ParseIPAliasOptions fails
\* whenever one of services_ipv4_cidr, create_subnetwork,
\* cluster_secondary_range_name and services_secondary_range_name is set, and
\* the error names an option that was set.  (The loop tests `if opt`, and the
\* empty dict of --create-subnetwork "" is not None but false.)
C16_AsStated ==
    (CreateCalled /\ ~Truthy(options.enable_ip_alias)
                  /\ SomeIpAliasOnlyOptionGiven(options)) =>
        /\ ParseIPAliasOptions(options).raised
        /\ NamesAGivenOption(options, ParseIPAliasOptions(options).error)

\* Exactly one of the two secondary range names is given.
OneSecondaryRangeName(o) ==
    Truthy(o.cluster_secondary_range_name)
        # Truthy(o.services_secondary_range_name)

\* C17 as stated: create_subnetwork together with exactly one of the
\* secondary range names fails with the missing-pair message.
C17_AsStated ==
    (CreateCalled /\ ~IsNone(options.create_subnetwork)
                  /\ OneSecondaryRangeName(options)) =>
        ParseIPAliasOptions(options) = Raised("MISSING_EXPLICIT_SECONDARY_RANGE")

\* C17, amended: create_subnetwork together with exactly one of the secondary
\* range names always fails, and never with the missing-pair message: with
\* the prerequisite error when enable_ip_alias is false, else with the
\* create-subnetwork-with-subnetwork error when subnetwork is given too, else
\* with the error that create_subnetwork excludes the secondary range names.
\* The missing-pair message is raised only without create_subnetwork.
C17_ExplicitRangesErrorNotMissingPair ==
    CreateCalled =>
        LET r == ParseIPAliasOptions(options)
        IN  /\ (~IsNone(options.create_subnetwork)
                    /\ OneSecondaryRangeName(options)) =>
                  /\ r.raised
                  /\ IF ~Truthy(options.enable_ip_alias)
                     THEN NamesAGivenOption(options, r.error)
                     ELSE IF Truthy(options.subnetwork)
                     THEN r.error = "CREATE_SUBNETWORK_WITH_SUBNETWORK"
                     ELSE r.error = "CREATE_SUBNETWORK_WITH_EXPLICIT_SECONDARY_RANGES"
            /\ r.error = "MISSING_EXPLICIT_SECONDARY_RANGE" =>
                  /\ IsNone(options.create_subnetwork)
                  /\ OneSecondaryRangeName(options)

\* C17's case: IP aliases are enabled, create_subnetwork and only the cluster
\* secondary range name are given, and the call fails with the error that the
\* two cannot be combined.
C17_Witness ==
    /\ CreateCalled
    /\ options.enable_ip_alias = "True"
    /\ options.create_subnetwork = "valid"
    /\ options.cluster_secondary_range_name = "set"
    /\ options.services_secondary_range_name = "None"
    /\ outcome = Raised("CREATE_SUBNETWORK_WITH_EXPLICIT_SECONDARY_RANGES")
    /\ sent = << >>

\* The three prerequisites of a TPU cluster hold.
TpuPrerequisites(o) ==
    /\ Truthy(o.enable_tpu)
    /\ Truthy(o.enable_kubernetes_alpha)
    /\ Truthy(o.enable_ip_alias)

\* C18: ParseTpuOptions names the first missing prerequisite: enable_tpu
\* without enable_kubernetes_alpha, enable_tpu with alpha but without
\* enable_ip_alias, tpu_ipv4_cidr without enable_tpu; and a cluster is sent
\* with enableTpu true only when enable_tpu, enable_kubernetes_alpha and
\* enable_ip_alias all hold, and then it is.
C18_TpuPrerequisiteChain ==
    CreateCalled =>
        LET o == options
            r == ParseTpuOptions(o)
        IN  /\ (Truthy(o.enable_tpu) /\ ~Truthy(o.enable_kubernetes_alpha)) =>
                  r = Raised(PREREQUISITE_OPTION_ERROR_MSG(
                                 "enable-tpu", "enable-kubernetes-alpha"))
            /\ (Truthy(o.enable_tpu) /\ Truthy(o.enable_kubernetes_alpha)
                    /\ ~Truthy(o.enable_ip_alias)) =>
                  r = Raised(PREREQUISITE_OPTION_ERROR_MSG(
                                 "enable-tpu", "enable-ip-alias"))
            /\ (~Truthy(o.enable_tpu) /\ Truthy(o.tpu_ipv4_cidr)) =>
                  r = Raised(PREREQUISITE_OPTION_ERROR_MSG(
                                 "tpu-ipv4-cidr", "enable-tpu"))
            /\ TpuPrerequisites(o) => ~r.raised
            /\ \A i \in 1..Len(sent) :
                  sent[i].body.enableTpu <=> TpuPrerequisites(o)

\* C18's case: all three prerequisites hold and the cluster is sent with
\* enableTpu true.
C18_Witness ==
    /\ CreateCalled
    /\ TpuPrerequisites(options)
    /\ ~outcome.raised
    /\ Len(sent) = 1
    /\ sent[1].body.enableTpu

-----------------------------------------------------------------------------
(* Claims about WaitForOperation (checked under SpecWait). *)

WaitEnded == wait_pc \in {"returned", "raised"}

RunningOp == OperationMsg("RUNNING", "")

DoneOp == OperationMsg("DONE", "")

IsDoneResponse(r) == r.kind = "Operation" /\ r.status = "DONE"

\* C3: when the first N polls report not-done and poll N+1 reports DONE
\* without an error, WaitForOperation leaves the loop at once and returns
\* that operation after exactly N+1 fetches (and N sleeps); no fetch is ever
\* issued after one that reported DONE.
C3_DoneEndsPolling ==
    LET n == Len(history)
    IN  /\ \A i \in 1..n : IsDoneResponse(history[i]) => i = n
        /\ ( /\ n >= 1
             /\ history[n] = DoneOp
             /\ \A i \in 1..(n - 1) : history[i] = RunningOp )
           => /\ wait_pc \in {"after_loop", "returned"}
              /\ sleeps = n - 1
              /\ wait_result.kind \in {"none", "returned"}
              /\ wait_pc = "returned" => /\ wait_result.kind = "returned"
                                         /\ wait_result.operation = DoneOp

\* C3's case: two polls reported not-done, the third DONE, and the call
\* returned.
C3_Witness ==
    /\ wait_pc = "returned"
    /\ history = <<RunningOp, RunningOp, DoneOp>>
    /\ sleeps = 2

OnlyRunningSeen == \A i \in 1..Len(history) : history[i] = RunningOp

\* C4 as stated: when the operation never reports DONE, no fetch is issued
\* once more than timeout_s seconds of wall-clock time have passed since the
\* loop started, and the call ends with the Timeout error naming the
\* operation, however many polls were made.
C4_AsStated ==
    OnlyRunningSeen =>
        /\ wait_pc = "fetch" => (wall - wall_start) <= timeout_s
        /\ WaitEnded => /\ wait_result.kind = "Timeout"
                        /\ wait_result.operation = RunningOp

\* C5 as stated: a run whose fetches fail with a non-403 HTTP error, and that
\* never sees DONE, is ended only by the timeout, with the Timeout error
\* naming the operation - also when every single fetch failed.
C5_AsStated ==
    LET n == Len(history)
    IN  ( /\ WaitEnded
          /\ n >= 1
          /\ \A i \in 1..n : history[i] \in {RunningOp, HttpError(500)}
          /\ \E i \in 1..n : history[i] = HttpError(500) )
        => /\ wait_result.kind = "Timeout"
           /\ wait_result.operation = RunningOp

\* C6: a 403 from GetOperation aborts WaitForOperation at once with an
\* authorization failure (HttpException): it is the last fetch, and no sleep
\* follows it, whatever time remains.
C6_ForbiddenAborts ==
    LET n == Len(history)
    IN  \A i \in 1..n :
           history[i] = HttpError(FORBIDDEN) =>
              /\ i = n
              /\ wait_pc = "raised"
              /\ wait_result.kind = "HttpException"
              /\ sleeps = n - 1

\* C6's case: the second fetch got a 403 with time left before the timeout.
C6_Witness ==
    /\ history = <<RunningOp, HttpError(FORBIDDEN)>>
    /\ wait_pc = "raised"
    /\ (wall - wall_start) < timeout_s

\* C7: WaitForOperation returns an operation only if the last fetch reported
\* it DONE with an empty error payload, and it returns that operation; when
\* the last fetch reported DONE with a non-empty error payload the call
\* fails with an error that carries that payload.
C7_ReturnsOnlyDoneWithoutError ==
    LET n == Len(history)
    IN  /\ wait_pc = "returned" =>
              /\ n >= 1
              /\ IsDoneResponse(history[n])
              /\ history[n].statusMessage = ""
              /\ wait_result.kind = "returned"
              /\ wait_result.operation = history[n]
        /\ ( /\ WaitEnded
             /\ n >= 1
             /\ IsDoneResponse(history[n])
             /\ history[n].statusMessage # "" )
           => /\ wait_pc = "raised"
              /\ wait_result.kind = "OperationError"
              /\ wait_result.payload = history[n].statusMessage

\* C7's case: the operation finished with an error payload and the call
\* raised an error carrying it.
C7_Witness ==
    /\ wait_pc = "raised"
    /\ Len(history) = 2
    /\ history[2] = OperationMsg("DONE", "quota exceeded")
    /\ wait_result.payload = "quota exceeded"

-----------------------------------------------------------------------------
(* Claims about `clusters create` (checked under SpecRun). *)

SentMethods == [i \in 1..Len(sent) |-> sent[i].method]

\* C9: without --async the kubeconfig is written only after, in this order,
\* the create request returned an operation, polling saw it DONE without an
\* error payload and the cluster was re-fetched; a failed create request,
\* polling or re-fetch leaves the kubeconfig unwritten.  With --async the
\* command returns after one cluster fetch, never polls and never writes
\* the kubeconfig.
C9_KubeconfigAfterCreateWaitFetch ==
    /\ kubeconfig_written =>
          /\ ~async
          /\ run_log = <<"CreateCluster", "WaitForOperation", "GetCluster",
                         "Persist">>
          /\ SentMethods = <<"clusters.Create", "clusters.Get">>
          /\ wait_result.kind = "returned"
          /\ history # << >>
          /\ history[Len(history)] = DoneOp
    /\ Len(history) > 0 => /\ ~async
                           /\ Len(sent) >= 1
                           /\ sent[1].method = "clusters.Create"
                           /\ run_log[1] = "CreateCluster"
    /\ run_pc = "raised" => ~kubeconfig_written
    /\ async => /\ wait_pc = "idle"
                /\ history = << >>
                /\ ~kubeconfig_written
                /\ run_pc = "returned" =>
                      /\ SentMethods = <<"clusters.Create", "clusters.Get">>
                      /\ run_log = <<"CreateCluster", "GetCluster">>

\* C9's case: a run without --async that polled more than once and wrote the
\* kubeconfig.
C9_Witness ==
    /\ ~async
    /\ kubeconfig_written
    /\ run_pc = "returned"
    /\ Len(history) >= 2

-----------------------------------------------------------------------------
(* Claims about the Kubeconfig object (checked under SpecKube). *)

\* dict `after` is dict `before` without the entry named key.
RemovedOnly(before, after, key) ==
    /\ DOMAIN after = (DOMAIN before) \ {key}
    /\ \A k \in DOMAIN after : after[k] = before[k]

\* C10: Clear(key) removes the entry named key from clusters, users and
\* contexts, sets current-context to the empty string when it equalled key
\* and leaves it alone otherwise, and leaves every other entry unchanged;
\* when key names no entry and is not the current context nothing changes.
C10_ClearRemovesKeyOnly ==
    kc_last.op = "Clear" =>
        LET key == kc_last.arg
        IN  /\ RemovedOnly(kc_before.clusters, kc_clusters, key)
            /\ RemovedOnly(kc_before.users, kc_users, key)
            /\ RemovedOnly(kc_before.contexts, kc_contexts, key)
            /\ kc_before.current = key => kc_current = ""
            /\ kc_before.current # key => kc_current = kc_before.current
            /\ ( /\ key \notin DOMAIN kc_before.clusters
                 /\ key \notin DOMAIN kc_before.users
                 /\ key \notin DOMAIN kc_before.contexts
                 /\ kc_before.current # key )
               => KubeconfigObject = kc_before

\* C10's case: Clear("c1") on an object holding c1 and c2 in all three
\* dictionaries, with current-context c2: c1 is gone, c2 and the current
\* context are kept.
C10_Witness ==
    /\ kc_last = [op |-> "Clear", arg |-> "c1"]
    /\ DOMAIN kc_before.clusters = {"c1", "c2"}
    /\ DOMAIN kc_before.users = {"c1", "c2"}
    /\ DOMAIN kc_before.contexts = {"c1", "c2"}
    /\ kc_before.current = "c2"
    /\ DOMAIN kc_clusters = {"c2"}
    /\ kc_current = "c2"

-----------------------------------------------------------------------------
(* Claims about the kubeconfig file (checked under SpecSave). *)

IsPrefixOf(s, t) == Len(s) <= Len(t) /\ SubSeq(t, 1, Len(s)) = s

\* The loading process has not written to the file.
LoaderWroteNothing == load_pos = 0 /\ load_pc # "create_write"

-----------------------------------------------------------------------------
(* Claims about the GCE cache (checked under SpecGce and SpecGceRace). *)

\* The call obtained its answer from the disk file or from the probe.
Sourced(entry) == entry.source \in {"disk", "server"}

InDiskSection == {t \in Threads : gce_pc[t] \in {"reading", "writing"}}

\* Some call has written the cache file.
SomeoneWrote ==
    \/ \E t \in Threads : gce_local[t].written # NoFile
    \/ \E i \in 1..Len(gce_log) : gce_log[i].written # NoFile

-----------------------------------------------------------------------------
(* Claims about NodeIdentityOptionsToNodeConfig (checked under SpecScopes). *)

ScopesCalled == scope_pc = "done"

\* No service account, new scopes behaviour, and scopes given.
NewScopesCase ==
    /\ ScopesCalled
    /\ ~scope_options.service_account
    /\ scope_options.new_scopes_behavior \/ scope_property
    /\ scope_options.scopes.given

\* The URIs the given names stand for: an alias for its URIs, any other name
\* for itself.
ExpandedURIs(table, names) ==
    UNION { IF names[i] \in DOMAIN table
            THEN ElementsOf(table[names[i]])
            ELSE {names[i]} : i \in 1..Len(names) }

\* Strictly increasing in the order of sorted(): sorted and without
\* duplicates.
StrictlySorted(uris) ==
    \A i \in 1..Len(uris) : \A j \in 1..Len(uris) :
        i < j => ScopeRank(uris[i]) < ScopeRank(uris[j])

\* The same names in every other order.
Reorderings(names) ==
    { [i \in 1..Len(names) |-> names[perm[i]]] :
          perm \in Permutations(1..Len(names)) }

\* C19: with no service account and new scopes behaviour, oauthScopes is the
\* sorted, duplicate-free list of exactly the URIs the given aliases expand
\* to (nothing added for the legacy or endpoints scopes), and the same list
\* results from the aliases in any other order.
C19_SortedExpansionOnly ==
    NewScopesCase =>
        /\ ~scope_result.raised
        /\ ElementsOf(scope_result.oauthScopes)
              = ExpandedURIs(scope_table, scope_options.scopes.names)
        /\ StrictlySorted(scope_result.oauthScopes)
        /\ \A names \in Reorderings(scope_options.scopes.names) :
              NodeIdentityOptionsToNodeConfig(
                  scope_table, scope_property,
                  [scope_options EXCEPT !.scopes.names = names]).oauthScopes
              = scope_result.oauthScopes

\* C19's case: the scopes compute-ro and storage-rw, cloud endpoints enabled,
\* new scopes behaviour: oauthScopes holds the two URIs of the aliases, in
\* sorted order, and nothing else.
C19_Witness ==
    /\ NewScopesCase
    /\ scope_options.scopes.names = << "storage-rw", "compute-ro" >>
    /\ scope_options.enable_cloud_endpoints
    /\ scope_table["compute-ro"] = << "compute.readonly" >>
    /\ scope_table["storage-rw"] = << "devstorage.read_write" >>
    /\ scope_result.oauthScopes = << "compute.readonly", "devstorage.read_write" >>

-----------------------------------------------------------------------------
(* Claims about kubeconfig.User (checked under SpecUser). *)

UserCalled == user_pc = "done"

\* None of auth_provider, token and (username and password) is supplied, as
\* the docstring and the error message of User put it.
NoAuthSupplied(a) ==
    /\ ~Given(a.auth_provider)
    /\ ~Given(a.token)
    /\ ~Given(a.username) \/ ~Given(a.password)

\* C20 as stated: User fails with its input error unless auth_provider, token
\* or both username and password are supplied; a client certificate or key
\* does not count.  (Lines 191-192 also let cert_path or cert_data through.)
C20_AsStated ==
    (UserCalled /\ NoAuthSupplied(user_args)) =>
        /\ user_result.raised
        /\ user_result.error
              = "either auth_provider, token or username & password must be provided"

-----------------------------------------------------------------------------
(* Claims about UpdateLabels and RemoveLabels (checked under SpecLabels). *)

LabelsCalled(method) == lbl_pc = "done" /\ lbl_args.method = method

RequestedKeys == {lbl_args.labels[i] : i \in 1..Len(lbl_args.labels)}

\* The requested keys that the cluster fetched does not have.
MissingKeys == RequestedKeys \ DOMAIN lbl_fetched.resourceLabels

\* The cluster's labels without the requested keys.
LabelsMinusRequested ==
    [k \in DOMAIN lbl_fetched.resourceLabels \ RequestedKeys |->
        lbl_fetched.resourceLabels[k]]

\* C21 as stated: RemoveLabels fails and writes nothing if the cluster has no
\* labels or a requested key is absent from them, naming a missing key in the
\* second case; a write implies that every requested key was present, and
\* carries the current labels minus the requested keys and the fingerprint of
\* the same fetch.
C21_AsStated ==
    (LabelsCalled("RemoveLabels") /\ ~lbl_fetched.raised) =>
        /\ (DOMAIN lbl_fetched.resourceLabels = {} \/ MissingKeys # {}) =>
              /\ lbl_result.raised
              /\ lbl_sent = << >>
        /\ (DOMAIN lbl_fetched.resourceLabels # {} /\ MissingKeys # {}) =>
              \E k \in MissingKeys : lbl_result.error = "NO_SUCH_LABEL " \o k
        /\ lbl_sent # << >> =>
              /\ Len(lbl_sent) = 1
              /\ MissingKeys = {}
              /\ lbl_sent[1].resourceLabels = SortedItems(LabelsMinusRequested)
              /\ lbl_sent[1].labelFingerprint = lbl_fetched.labelFingerprint

\* C22 as stated: when the fetch of the cluster ends in not-found, UpdateLabels
\* does not fail and sends the label list built from update_labels.
C22_AsStated ==
    (LabelsCalled("UpdateLabels")
        /\ lbl_server.get \in {"not_found_other_zone", "not_found_nowhere"}) =>
        /\ ~lbl_result.raised
        /\ Len(lbl_sent) = 1
        /\ lbl_sent[1].resourceLabels = SortedItems(lbl_args.labels)

-----------------------------------------------------------------------------
(* Claims about jobs_util.Update (checked under SpecJobUpdate). *)

NoFieldsOutcome == op_pc = "done" /\ op_input.patch = "no_fields"

NoOpSuccess ==
    /\ ~op_result.raised
    /\ op_result.value = "None"
    /\ op_result.printed = << "No update to perform." >>

NoFieldsReraised ==
    /\ op_result.raised
    /\ op_result.error = "NoFieldsSpecifiedError"

\* C23 as stated: a 'no fields specified' outcome is a successful no-op only
\* when none of the three label flags was supplied, and is re-raised when at
\* least one was.
C23_AsStated ==
    NoFieldsOutcome =>
        IF op_input.specified = {} THEN NoOpSuccess ELSE NoFieldsReraised

\* C23, amended: a 'no fields specified' outcome is a successful no-op only
\* when at least one of the three label flags was supplied, and is re-raised
\* when none was.
C23_NoOpOnlyIfFlagSupplied ==
    NoFieldsOutcome =>
        IF op_input.specified = {} THEN NoFieldsReraised ELSE NoOpSuccess

\* C23's case: --remove-labels was given, the patch had no fields, and Update
\* returned None after printing that there is nothing to do.
C23_Witness ==
    /\ NoFieldsOutcome
    /\ op_input.specified = {"remove_labels"}
    /\ NoOpSuccess

-----------------------------------------------------------------------------
(* Claims about VersionVerifier.Compare (checked under SpecCompare). *)

Compared == op_pc = "done"

MinorAhead == op_input.main.minor - op_input.cluster.minor

SameMajor == op_input.main.major = op_input.cluster.major

\* C24: Compare returns for every pair of versions: UP_TO_DATE when they are
\* equal; otherwise UPGRADE_AVAILABLE when the majors match and the main's
\* minor is ahead by at most 1, SUPPORT_ENDING when it is ahead by exactly 2,
\* and UNSUPPORTED when it is ahead by 3 or more or the majors differ.
C24_FourWayClassification ==
    Compared =>
        /\ op_result.returned
        /\ op_result.value =
              IF op_input.main = op_input.cluster THEN UP_TO_DATE
              ELSE IF ~SameMajor \/ MinorAhead >= 3 THEN UNSUPPORTED
              ELSE IF MinorAhead = 2 THEN SUPPORT_ENDING
              ELSE UPGRADE_AVAILABLE

\* C24's case: the main is exactly two minor versions ahead of the nodes and
\* the answer is SUPPORT_ENDING.
C24_Witness ==
    /\ Compared
    /\ SameMajor
    /\ MinorAhead = 2
    /\ op_result.value = SUPPORT_ENDING

-----------------------------------------------------------------------------
(* Claims about the SQL instance builders (checked under SpecSql). *)

SqlCalled(method) == op_pc = "done" /\ op_input.method = method

\* C25: a created instance has replication type SYNCHRONOUS when neither a
\* main instance name nor a replication flag was given, ASYNCHRONOUS when a
\* main instance name was given without a replication flag, and the value of
\* the replication flag whenever the flag was given.
C25_ReplicationTypeInference ==
    (SqlCalled("create") /\ op_result.built) =>
        op_result.settings.replicationType =
            IF op_input.args.replication # "None" THEN op_input.args.replication
            ELSE IF op_input.args.main_instance_name = "None" THEN "SYNCHRONOUS"
            ELSE "ASYNCHRONOUS"

\* C25's case: a replica of a main instance is created with an explicit
\* SYNCHRONOUS replication flag, which is the value used.
C25_Witness ==
    /\ SqlCalled("create")
    /\ op_result.built
    /\ op_input.args.main_instance_name = "main"
    /\ op_input.args.replication = "SYNCHRONOUS"
    /\ op_result.settings.replicationType = "SYNCHRONOUS"

LimitSpecified == op_input.args.storage_auto_increase_limit # "unspecified"

LimitRefused ==
    /\ op_result.raised
    /\ op_result.error = "RequiredArgumentException --storage-auto-increase"
    /\ op_result.settings.storageAutoResizeLimit = "None"

LimitAccepted ==
    /\ op_result.error # "RequiredArgumentException --storage-auto-increase"
    /\ op_result.built => op_result.settings.storageAutoResizeLimit \in {"0", "100"}

AutoIncreaseRequested == op_input.args.storage_auto_increase = "True"

AutoIncreaseAlreadyOn ==
    op_input.instance.exists /\ op_input.instance.storageAutoResize = "True"

AutoIncreaseTurnedOff == op_input.args.storage_auto_increase = "False"

\* C27 as stated: a specified storage-auto-increase-limit is accepted only if
\* auto-increase is requested in this call, or already on for the instance
\* and not being turned off by this call; in every other case the call fails
\* with the required-argument error and sets no limit.
C27_AsStated ==
    (op_pc = "done" /\ LimitSpecified) =>
        IF AutoIncreaseRequested \/ (AutoIncreaseAlreadyOn /\ ~AutoIncreaseTurnedOff)
        THEN LimitAccepted
        ELSE LimitRefused

\* C27, amended: a specified storage-auto-increase-limit is accepted only if
\* auto-increase is requested in this call or already on for the instance,
\* whether or not this call turns it off; in every other case the call fails
\* with the required-argument error and sets no limit.
C27_LimitNeedsAutoIncreaseOnOrRequested ==
    (op_pc = "done" /\ LimitSpecified) =>
        IF AutoIncreaseRequested \/ AutoIncreaseAlreadyOn
        THEN LimitAccepted
        ELSE LimitRefused

\* C27's case: the limit is given without auto-increase for an instance that
\* has it off, and the builder refuses it.
C27_Witness ==
    /\ SqlCalled("base")
    /\ LimitSpecified
    /\ ~AutoIncreaseRequested
    /\ ~AutoIncreaseAlreadyOn
    /\ LimitRefused

-----------------------------------------------------------------------------
(* Claims about Argument.FromData (checked under SpecFromData). *)

FromDataCalled == op_pc = "done"

DefaultAndFallbackSet ==
    /\ op_input.group = "absent"
    /\ op_input.default # "absent"
    /\ op_input.fallback # "absent"

\* C26: FromData fails with InvalidSchemaError for every argument declaration
\* that sets both default and fallback, whatever the default is, falsy
\* defaults such as 0, False and the empty string included.
C26_AsStated ==
    (FromDataCalled /\ DefaultAndFallbackSet) =>
        /\ op_result.raised
        /\ op_result.made = "nothing"

-----------------------------------------------------------------------------
(* Claims about UpdateNodePoolAutoscaling (checked under SpecAutoscaling). *)

AutoscalingMerged == op_pc = "done" /\ ~op_result.raised

EnablingAutoprovisioning == op_input.options.enable_autoprovisioning = "True"

\* The minimum the merge leaves when it does not reset it.
MinNotReset ==
    IF op_input.options.min_nodes # "None" THEN op_input.options.min_nodes
    ELSE op_input.pool.message.minNodeCount

MinResetOnlyWhenEnabling ==
    op_result.autoscaling.minNodeCount =
        IF EnablingAutoprovisioning /\ op_input.options.min_nodes = "None"
        THEN "0" ELSE MinNotReset

AutoprovisionedAsRequested ==
    op_input.options.enable_autoprovisioning # "None" =>
        op_result.autoscaling.autoprovisioned =
            op_input.options.enable_autoprovisioning

AutoprovisionedOffWithAutoscaling ==
    (/\ op_input.options.enable_autoprovisioning = "None"
     /\ op_result.autoscaling.enabled # "True") =>
        op_result.autoscaling.autoprovisioned = "False"

\* C28: the merge resets the minimum node count to 0 only when
\* autoprovisioning is being enabled and min_nodes is absent; it sets
\* autoprovisioned to the requested value whenever autoprovisioning is given;
\* and it forces autoprovisioned to false when the merged state has
\* autoscaling disabled and autoprovisioning was not given.
C28_AsStated ==
    AutoscalingMerged =>
        /\ MinResetOnlyWhenEnabling
        /\ AutoprovisionedAsRequested
        /\ AutoprovisionedOffWithAutoscaling

-----------------------------------------------------------------------------
(* Claims about the size of the generated node pools (checked under        *)
(* SpecAdapter).                                                           *)

-----------------------------------------------------------------------------
(* Claims about a cache file without the text True (checked under SpecGce). *)

NotTheTextTrue(content) == content # NoFile /\ content # "True"

\* The thread's call reads the cache file in this step.
ReadsDiskNow(t) == gce_pc[t] = "reading" /\ gce_pc'[t] = "write_memory"

\* The thread's call goes on from the memory check that follows the disk
\* read, with what it read still unexpired or with check_age false.
LeavesRecheckUnexpired(t) ==
    /\ gce_pc[t] = "recheck_memory"
    /\ gce_pc'[t] # "recheck_memory"
    /\ \/ ~gce_local[t].check_age
       \/ /\ gce_local[t].disk_result.expiration_time # None
          /\ gce_local[t].disk_result.expiration_time[1] >= gce_now

ReturnsFalseFromDisk(t) ==
    /\ gce_pc'[t] = "idle"
    /\ Len(gce_log') = Len(gce_log) + 1
    /\ LET entry == gce_log'[Len(gce_log')]
       IN  /\ entry.thread = t
           /\ entry.answer = FALSE
           /\ entry.source = "disk"
           /\ ~entry.probed

\* C30: when the cache file can be read and holds anything but the text True
\* (nothing, or part of a text), the disk tier yields False with expiry
\* mtime + 600, and GetOnGCE returns False from it without probing the
\* metadata server while that expiry has not passed, or always when
\* check_age is false.
C30_NonTrueContentIsCachedFalse ==
    [][\A t \in gce_threads :
          /\ (ReadsDiskNow(t) /\ NotTheTextTrue(gce_disk.content)) =>
                gce_local'[t].disk_result =
                    [connected |-> Some(FALSE),
                     expiration_time |-> Some(gce_disk.mtime + _GCE_CACHE_MAX_AGE)]
          /\ (LeavesRecheckUnexpired(t) /\ NotTheTextTrue(gce_local[t].seen)) =>
                ReturnsFalseFromDisk(t)]_vars

\* C30's case: a call read an empty cache file and returned False from the
\* disk tier without probing.
C30_Witness ==
    \E t \in gce_threads :
        /\ gce_pc[t] = "idle"
        /\ gce_local[t].read_disk
        /\ gce_local[t].seen = ""
        /\ ~gce_local[t].probed
        /\ Len(gce_log) >= 1
        /\ gce_log[Len(gce_log)].thread = t
        /\ gce_log[Len(gce_log)].source = "disk"
        /\ gce_log[Len(gce_log)].answer = FALSE

=============================================================================
